---------------------------- MODULE Spec2Model ----------------------------
(***************************************************************************)
(* A model of the dnstrie library: the bitmap-packed vector BmpVec with    *)
(* its test oracle BlimpVec, the DNS name parsers and name types, and the  *)
(* trie-key codec.                                                         *)
(*                                                                         *)
(* Representation notes.                                                   *)
(*  - A u64 bitmap is the set of its set bit positions, a subset of 0..63; *)
(*    and, xor and count_ones are intersection, symmetric difference and   *)
(*    cardinality, so all 64 bits keep their meaning.                      *)
(*  - Option<T> is a sequence: None is <<>> and Some(v) is <<v>>.          *)
(*  - A byte slice is a sequence of 0..255; Rust index i is TLA+ index i+1.*)
(***************************************************************************)
EXTENDS Integers, Sequences, FiniteSets, TLC

VARIABLES
    bmp,        \* BmpVec.bmp: the bitmap
    ptr,        \* BmpVec.ptr: the allocation, [elems, cap]
    blimp,      \* BlimpVec: [len, vec]
    bmp_ret,    \* what the last action returned on the BmpVec
    blimp_ret,  \* what the last action returned on the BlimpVec
    act,        \* the last action of exercise_actions
    fault,      \* "none", "panic" (a Rust panic) or "ub" (an out-of-bounds read)
    probe,      \* the calls the last action made on a position the BmpVec
                \* does not hold: the BmpVec before them, what each returned
    vecs_one,   \* exercise_vecs: vecs.one
    vecs_two,   \* exercise_vecs: vecs.two
    name1,      \* the name parsed from vecs.one (scratch1)
    name2,      \* the name parsed from vecs.two (scratch2)
    triename1,  \* TrieName of name1: [key, panic]
    triename2,  \* TrieName of name2
    scratch_ord,\* name1.cmp(&name2)
    slice_ord,  \* slice1.cmp(slice2)
    heap1,      \* triename1.make_dns_name(): [ret, panic]
    heap2,      \* triename2.make_dns_name()
    tpc,        \* where exercise_vecs is
    wire_bytes, \* exercise_wire: the bytes to parse
    wire_start, \* exercise_wire: the position the name starts at
    wire_labels,\* WireLabels::from_wire on them: [this, ret, trace]
    scratch1,   \* ScratchName::from_wire / from_text: [this, ret, ...]
    wire_heap1, \* HeapName::from(&wire_labels): [mem, panic]; or the result
                \* of HeapName::try_from(&text[0..len])
    wire_heap2, \* HeapName::from(&scratch1): [mem]; or the result of
                \* HeapName::try_from(text)
    text2,      \* format!("{}", scratch1): [ok, val]
    scratch2,   \* ScratchName::from_text on that text: [this, ret]
    heap3,      \* HeapName::try_from(text2), and format!("{}", heap3)
    wpc,        \* where exercise_wire is
    pad,        \* a ScratchPad<u8, PadSize>: as_slice(), its initialized part
    pad_ret,    \* what the last call on the pad returned, or [panic |-> TRUE]
    pad_op,     \* the last call on the pad: [op, elems, before]
    twig,       \* a CookedTwig: a Branch [offset, bmp, ptr] or a Leaf [key, val]
    twig_raw,   \* RawTwig::from(twig): [int, ptr]
    twig_back   \* CookedTwig::from(twig_raw)

bmpVars == <<bmp, ptr, blimp, bmp_ret, blimp_ret, act, fault, probe>>

trieVars == <<vecs_one, vecs_two, name1, name2, triename1, triename2,
              scratch_ord, slice_ord, heap1, heap2, tpc>>

wireVars == <<wire_bytes, wire_start, wire_labels, scratch1, wire_heap1, wire_heap2,
              text2, scratch2, heap3, wpc>>

padVars == <<pad, pad_ret, pad_op>>

twigVars == <<twig, twig_raw, twig_back>>

vars == <<bmpVars, trieVars, wireVars, padVars, twigVars>>

notBmpVars == <<trieVars, wireVars, padVars, twigVars>>

notTrieVars == <<bmpVars, wireVars, padVars, twigVars>>

notWireVars == <<bmpVars, trieVars, padVars, twigVars>>

notPadVars == <<bmpVars, trieVars, wireVars, twigVars>>

notTwigVars == <<bmpVars, trieVars, wireVars, padVars>>

\* A part of the program that a specification does not run stays as it is
BmpIdle ==
    /\ bmp = {} /\ ptr = <<>> /\ blimp = <<>> /\ bmp_ret = <<>>
    /\ blimp_ret = <<>> /\ act = "idle" /\ fault = "none" /\ probe = <<>>

TrieIdle ==
    /\ vecs_one = <<>> /\ vecs_two = <<>>
    /\ name1 = <<>> /\ name2 = <<>>
    /\ triename1 = <<>> /\ triename2 = <<>> /\ scratch_ord = <<>>
    /\ slice_ord = <<>> /\ heap1 = <<>> /\ heap2 = <<>> /\ tpc = "idle"

WireIdle ==
    /\ wire_bytes = <<>> /\ wire_start = 0 /\ wire_labels = <<>>
    /\ scratch1 = <<>>
    /\ wire_heap1 = <<>> /\ wire_heap2 = <<>>
    /\ text2 = <<>> /\ scratch2 = <<>> /\ heap3 = <<>> /\ wpc = "idle"

PadIdle == pad = <<>> /\ pad_ret = [idle |-> TRUE] /\ pad_op = <<>>

TwigIdle == twig = <<>> /\ twig_raw = <<>> /\ twig_back = <<>>

None == <<>>
Some(v) == <<v>>

Max(a, b) == IF a >= b THEN a ELSE b

-----------------------------------------------------------------------------
(* Bounds of the BmpVec model.  Positions are NPos of 0..63, half of them   *)
(* the lowest and half the highest; an action's byte is a position plus a   *)
(* multiple of 64, as in exercise_actions, which uses `pos & 63` as the     *)
(* position and `pos` as the value.                                         *)
NPos == 3
MaxWrap == 1

Positions == { p \in 0 .. 63 : p < (NPos + 1) \div 2 \/ p > 63 - NPos \div 2 }
ActionBytes == { p + 64 * k : p \in Positions, k \in 0 .. MaxWrap }
\* positions that are not in 0..=63: the least, the greatest u8, and one that
\* is not a u8
OutOfRange == {64, 255, 256}

-----------------------------------------------------------------------------
(* mod bmp: Bmp, Bit and Mask                                               *)

bitmask_wrapping(pos) ==
    Some([bit |-> {pos % 64}, mask |-> 0 .. (pos % 64) - 1])

bitmask_narrow(pos) ==
    IF pos \in 0 .. 63
    THEN Some([bit |-> {pos % 32}, mask |-> 0 .. (pos % 32) - 1])
    ELSE None

bitmask_inclusive(pos) ==
    IF pos \in 0 .. 63
    THEN Some([bit |-> {pos}, mask |-> 0 .. pos])
    ELSE None

\* bit = 1u64 << shift; mask = bit - 1: the bits below `shift`
bitmask(pos) ==
    IF pos \in 0 .. 63
    THEN Some([bit |-> {pos}, mask |-> 0 .. pos - 1])
    ELSE None

\* Bmp & Bit -> bool
Bmp_and_Bit(b, bit) == (b \cap bit) # {}

\* Bmp ^ Bit -> Bmp
Bmp_xor_Bit(b, bit) == (b \ bit) \cup (bit \ b)

\* Bmp & Mask -> usize
Bmp_and_Mask(b, mask) == Cardinality(b \cap mask)

Bmp_new == {}
Bmp_is_empty(b) == b = {}
Bmp_len(b) == Cardinality(b)

\* bmp::Iter::next from Iter{bmp, pos}: the first set bit i in pos..=63 and
\* the iterator's new pos, or None.
RECURSIVE Bmp_Iter_scan(_, _)
Bmp_Iter_scan(b, i) ==
    IF i > 63 THEN None
    ELSE IF i \in b THEN Some([item |-> i, pos |-> i + 1])
    ELSE Bmp_Iter_scan(b, i + 1)

Bmp_Iter_next(b, pos) == Bmp_Iter_scan(b, pos)

\* collect() of Bmp::iter(): Iter { bmp, pos: 0 } driven to None
RECURSIVE Bmp_Iter_collect(_, _)
Bmp_Iter_collect(b, pos) ==
    LET n == Bmp_Iter_next(b, pos)
    IN  IF n = None THEN <<>>
        ELSE <<n[1].item>> \o Bmp_Iter_collect(b, n[1].pos)

Bmp_iter(b) == Bmp_Iter_collect(b, 0)

-----------------------------------------------------------------------------
(* Vec<T> as BmpVec uses it: [elems, cap]                                   *)

Vec_new == [elems |-> <<>>, cap |-> 0]

\* Vec::reserve(additional): grows the capacity when there is no room
Vec_reserve(v, n) ==
    IF v.cap - Len(v.elems) >= n THEN v
    ELSE [v EXCEPT !.cap = Max(2 * v.cap, Len(v.elems) + n)]

\* Vec::insert(index, val) for index <= len
Vec_insert(v, idx, val) ==
    [v EXCEPT !.elems = SubSeq(v.elems, 1, idx) \o <<val>>
                        \o SubSeq(v.elems, idx + 1, Len(v.elems))]

\* Vec::remove(index) for index < len
Vec_remove(v, idx) ==
    [v EXCEPT !.elems = SubSeq(v.elems, 1, idx)
                        \o SubSeq(v.elems, idx + 2, Len(v.elems))]

-----------------------------------------------------------------------------
(* BmpVec<T>: a value is [bmp, ptr], ptr the allocation [elems, cap]        *)

from_cooked_parts_noshrink(b, vec) ==
    [bmp |-> b, ptr |-> vec, panic |-> Bmp_len(b) # Len(vec.elems)]

\* assert_eq!(bmp.len(), vec.len()); vec.into_boxed_slice() drops the excess
\* capacity
from_cooked_parts(b, vec) ==
    [bmp |-> b,
     ptr |-> [elems |-> vec.elems, cap |-> Len(vec.elems)],
     panic |-> Bmp_len(b) # Len(vec.elems)]

BmpVec_new == from_cooked_parts(Bmp_new, Vec_new)

\* Vec::from_raw_parts(self.ptr, len, len) with len = self.bmp.len()
into_cooked_parts(self) ==
    [bmp |-> self.bmp,
     vec |-> [elems |-> self.ptr.elems, cap |-> Bmp_len(self.bmp)]]

\* slice::from_raw_parts(self.ptr, self.bmp.len())
as_cooked_parts(self) ==
    [bmp |-> self.bmp,
     slice |-> SubSeq(self.ptr.elems, 1, Bmp_len(self.bmp))]

\* get_ptr: bitmask(pos).filter(bmp & bit).map(ptr.add(bmp & mask)); the
\* result is the index of the element in the allocation
get_ptr(self, pos) ==
    LET bm == bitmask(pos)
    IN  IF bm # None /\ Bmp_and_Bit(self.bmp, bm[1].bit)
        THEN Some(Bmp_and_Mask(self.bmp, bm[1].mask))
        ELSE None

\* Reading through the pointer get_ptr returned: outside the allocation the
\* read is undefined behaviour.
InAlloc(self, idx) == idx < Len(self.ptr.elems)

\* get / get_mut: [ret, ub]
BmpVec_get(self, pos) ==
    LET p == get_ptr(self, pos)
    IN  IF p = None THEN [ret |-> None, ub |-> FALSE]
        ELSE IF InAlloc(self, p[1])
             THEN [ret |-> Some(self.ptr.elems[p[1] + 1]), ub |-> FALSE]
             ELSE [ret |-> None, ub |-> TRUE]

\* *get_mut(pos).unwrap() = val
BmpVec_write(self, pos, val) ==
    LET p == get_ptr(self, pos)
    IN  IF p # None /\ InAlloc(self, p[1])
        THEN [self EXCEPT !.ptr.elems[p[1] + 1] = val]
        ELSE self

BmpVec_contains(self, pos) ==
    LET bm == bitmask(pos)
    IN  IF bm = None THEN FALSE ELSE Bmp_and_Bit(as_cooked_parts(self).bmp, bm[1].bit)

BmpVec_len(self) == Bmp_len(as_cooked_parts(self).bmp)
BmpVec_is_empty(self) == Bmp_is_empty(as_cooked_parts(self).bmp)
BmpVec_keys(self) == Bmp_iter(as_cooked_parts(self).bmp)
BmpVec_values(self) == as_cooked_parts(self).slice

\* Iter::next of BmpVec::iter() driven to None: the keys and the values in
\* step, until either runs out
BmpVec_iter(self) ==
    [i \in 1 .. (IF Len(BmpVec_keys(self)) <= Len(BmpVec_values(self))
                 THEN Len(BmpVec_keys(self)) ELSE Len(BmpVec_values(self))) |->
        <<BmpVec_keys(self)[i], BmpVec_values(self)[i]>>]

\* BmpVec::set(pos, val), val an Option: [self, ret, panic, ub]
BmpVec_set(self, pos, val) ==
    LET bm == bitmask(pos)
        keep == [self |-> self, ret |-> None, panic |-> FALSE, ub |-> FALSE]
    IN  IF bm # None /\ val # None /\ Bmp_and_Bit(self.bmp, bm[1].bit)
        THEN \* replace in place, return the old value
             LET old == BmpVec_get(self, pos)
             IN  [self |-> BmpVec_write(self, pos, val[1]),
                  ret |-> old.ret, panic |-> FALSE, ub |-> old.ub]
        ELSE IF bm # None /\ val # None
        THEN LET parts == into_cooked_parts(self)
                 idx == Bmp_and_Mask(parts.bmp, bm[1].mask)
                 vec == Vec_reserve(parts.vec, 1)
             IN  IF idx > Len(vec.elems)
                 THEN [keep EXCEPT !.panic = TRUE]
                 ELSE LET new == from_cooked_parts(
                                     Bmp_xor_Bit(parts.bmp, bm[1].bit),
                                     Vec_insert(vec, idx, val[1]))
                      IN  [self |-> [bmp |-> new.bmp, ptr |-> new.ptr],
                           ret |-> None, panic |-> new.panic, ub |-> FALSE]
        ELSE IF bm # None /\ val = None /\ Bmp_and_Bit(self.bmp, bm[1].bit)
        THEN LET parts == into_cooked_parts(self)
                 idx == Bmp_and_Mask(parts.bmp, bm[1].mask)
             IN  IF idx >= Len(parts.vec.elems)
                 THEN [keep EXCEPT !.panic = TRUE]
                 ELSE LET new == from_cooked_parts(
                                     Bmp_xor_Bit(parts.bmp, bm[1].bit),
                                     Vec_remove(parts.vec, idx))
                      IN  [self |-> [bmp |-> new.bmp, ptr |-> new.ptr],
                           ret |-> Some(parts.vec.elems[idx + 1]),
                           panic |-> new.panic, ub |-> FALSE]
        ELSE IF bm = None /\ val # None
        THEN [keep EXCEPT !.panic = TRUE]
        ELSE keep

BmpVec_insert(self, pos, val) == BmpVec_set(self, pos, Some(val))
BmpVec_remove(self, pos) == BmpVec_set(self, pos, None)

-----------------------------------------------------------------------------
(* BlimpVec<T>, the oracle: [len, vec], vec a 64-slot array of Options      *)

BlimpVec_new == [len |-> 0, vec |-> [i \in 0 .. 63 |-> None]]

\* get_pos: Some(pos) when pos < self.vec.len()
BlimpVec_get_pos(self, pos) ==
    IF pos \in 0 .. 255 /\ pos < 64 THEN Some(pos) ELSE None

BlimpVec_get(self, pos) ==
    LET p == BlimpVec_get_pos(self, pos)
    IN  IF p = None THEN None ELSE self.vec[p[1]]

BlimpVec_contains(self, pos) == BlimpVec_get(self, pos) # None
BlimpVec_len(self) == self.len
BlimpVec_is_empty(self) == self.len = 0

RECURSIVE BlimpVec_scan(_, _, _)
BlimpVec_scan(self, i, keys) ==
    IF i > 63 THEN <<>>
    ELSE IF self.vec[i] = None THEN BlimpVec_scan(self, i + 1, keys)
    ELSE <<IF keys THEN i ELSE self.vec[i][1]>> \o BlimpVec_scan(self, i + 1, keys)

BlimpVec_keys(self) == BlimpVec_scan(self, 0, TRUE)
BlimpVec_values(self) == BlimpVec_scan(self, 0, FALSE)

\* BlimpVec::set(pos, val): [self, ret, panic]
BlimpVec_set(self, pos, val) ==
    LET p == BlimpVec_get_pos(self, pos)
    IN  IF p = None THEN [self |-> self, ret |-> None, panic |-> TRUE]
        ELSE LET old == self.vec[p[1]]
                 len == IF old = None /\ val # None THEN self.len + 1
                        ELSE IF old # None /\ val = None THEN self.len - 1
                        ELSE self.len
             IN  [self |-> [len |-> len, vec |-> [self.vec EXCEPT ![p[1]] = val]],
                  ret |-> old, panic |-> FALSE]

BlimpVec_insert(self, pos, val) == BlimpVec_set(self, pos, Some(val))
BlimpVec_remove(self, pos) == BlimpVec_set(self, pos, None)

-----------------------------------------------------------------------------
(* exercise_actions: the BmpVec and the oracle driven side by side          *)

SelfBmp == [bmp |-> bmp, ptr |-> ptr]

Faulted(panic, ub) == IF panic THEN "panic" ELSE IF ub THEN "ub" ELSE "none"

BmpInit ==
    /\ bmp = BmpVec_new.bmp
    /\ ptr = BmpVec_new.ptr
    /\ blimp = BlimpVec_new
    /\ bmp_ret = None
    /\ blimp_ret = None
    /\ act = "new"
    /\ fault = "none"
    /\ probe = <<>>
    /\ TrieIdle
    /\ WireIdle
    /\ PadIdle
    /\ TwigIdle

Running == fault = "none"

Contains(raw) ==
    /\ Running
    /\ probe' = <<>>
    /\ UNCHANGED notBmpVars
    /\ act' = "Contains"
    /\ bmp_ret' = BmpVec_contains(SelfBmp, raw % 64)
    /\ blimp_ret' = BlimpVec_contains(blimp, raw % 64)
    /\ UNCHANGED <<bmp, ptr, blimp, fault>>

Insert(raw) ==
    LET a == BmpVec_insert(SelfBmp, raw % 64, raw)
        b == BlimpVec_insert(blimp, raw % 64, raw)
    IN  /\ Running
        /\ probe' = <<>>
        /\ UNCHANGED notBmpVars
        /\ act' = "Insert"
        /\ bmp' = a.self.bmp
        /\ ptr' = a.self.ptr
        /\ blimp' = b.self
        /\ bmp_ret' = a.ret
        /\ blimp_ret' = b.ret
        /\ fault' = Faulted(a.panic \/ b.panic, a.ub)

Remove(raw) ==
    LET a == BmpVec_remove(SelfBmp, raw % 64)
        b == BlimpVec_remove(blimp, raw % 64)
    IN  /\ Running
        /\ probe' = <<>>
        /\ UNCHANGED notBmpVars
        /\ act' = "Remove"
        /\ bmp' = a.self.bmp
        /\ ptr' = a.self.ptr
        /\ blimp' = b.self
        /\ bmp_ret' = a.ret
        /\ blimp_ret' = b.ret
        /\ fault' = Faulted(a.panic \/ b.panic, a.ub)

Get(raw) ==
    LET a == BmpVec_get(SelfBmp, raw % 64)
    IN  /\ Running
        /\ probe' = <<>>
        /\ UNCHANGED notBmpVars
        /\ act' = "Get"
        /\ bmp_ret' = a.ret
        /\ blimp_ret' = BlimpVec_get(blimp, raw % 64)
        /\ fault' = Faulted(FALSE, a.ub)
        /\ UNCHANGED <<bmp, ptr, blimp>>

\* get_mut on both; when both are Some the test writes `pos` through both
GetMut(raw) ==
    LET a == BmpVec_get(SelfBmp, raw % 64)
        b == BlimpVec_get(blimp, raw % 64)
        both == a.ret # None /\ b # None
        w == BmpVec_write(SelfBmp, raw % 64, raw)
    IN  /\ Running
        /\ probe' = <<>>
        /\ UNCHANGED notBmpVars
        /\ act' = "GetMut"
        /\ bmp_ret' = a.ret
        /\ blimp_ret' = b
        /\ bmp' = IF both THEN w.bmp ELSE bmp
        /\ ptr' = IF both THEN w.ptr ELSE ptr
        /\ blimp' = IF both
                    THEN [blimp EXCEPT !.vec[raw % 64] = Some(raw)]
                    ELSE blimp
        /\ fault' = Faulted(FALSE, a.ub)

LenAction ==
    /\ Running
    /\ probe' = <<>>
    /\ UNCHANGED notBmpVars
    /\ act' = "Len"
    /\ bmp_ret' = BmpVec_len(SelfBmp)
    /\ blimp_ret' = BlimpVec_len(blimp)
    /\ UNCHANGED <<bmp, ptr, blimp, fault>>

IsEmpty ==
    /\ Running
    /\ probe' = <<>>
    /\ UNCHANGED notBmpVars
    /\ act' = "IsEmpty"
    /\ bmp_ret' = BmpVec_is_empty(SelfBmp)
    /\ blimp_ret' = BlimpVec_is_empty(blimp)
    /\ UNCHANGED <<bmp, ptr, blimp, fault>>

Keys ==
    /\ Running
    /\ probe' = <<>>
    /\ UNCHANGED notBmpVars
    /\ act' = "Keys"
    /\ bmp_ret' = BmpVec_keys(SelfBmp)
    /\ blimp_ret' = BlimpVec_keys(blimp)
    /\ UNCHANGED <<bmp, ptr, blimp, fault>>

Values ==
    /\ Running
    /\ probe' = <<>>
    /\ UNCHANGED notBmpVars
    /\ act' = "Values"
    /\ bmp_ret' = BmpVec_values(SelfBmp)
    /\ blimp_ret' = BlimpVec_values(blimp)
    /\ UNCHANGED <<bmp, ptr, blimp, fault>>

\* contains, get, get_mut and remove of a position that is out of range or
\* that the BmpVec does not hold (the oracle is not asked)
Absent(pos) ==
    /\ Running
    /\ pos \notin bmp
    /\ \E rem \in {BmpVec_remove(SelfBmp, pos)} :
          /\ probe' = [pos |-> pos, before |-> SelfBmp,
                       contains |-> BmpVec_contains(SelfBmp, pos),
                       get |-> BmpVec_get(SelfBmp, pos),
                       get_mut |-> BmpVec_get(SelfBmp, pos),
                       remove |-> [ret |-> rem.ret, panic |-> rem.panic]]
          /\ bmp' = rem.self.bmp
          /\ ptr' = rem.self.ptr
    /\ act' = "Absent"
    /\ UNCHANGED <<blimp, bmp_ret, blimp_ret, fault>>
    /\ UNCHANGED notBmpVars

\* test::oob_panic, on the BmpVec as it is: insert of a position out of range.
\* The test expects the panic (#[should_panic]); it is kept in probe, and
\* fault is for what exercise_actions must never do.
oob_panic(pos) ==
    /\ Running
    /\ \E ins \in {BmpVec_insert(SelfBmp, pos, pos % 256)} :
          /\ probe' = [pos |-> pos, before |-> SelfBmp,
                       insert |-> [ret |-> ins.ret, panic |-> ins.panic]]
          /\ bmp' = ins.self.bmp
          /\ ptr' = ins.self.ptr
    /\ act' = "oob_panic"
    /\ UNCHANGED <<blimp, bmp_ret, blimp_ret, fault>>
    /\ UNCHANGED notBmpVars

BmpNext ==
    \/ \E raw \in ActionBytes : Contains(raw)
    \/ \E raw \in ActionBytes : Insert(raw)
    \/ \E raw \in ActionBytes : Remove(raw)
    \/ \E raw \in ActionBytes : Get(raw)
    \/ \E raw \in ActionBytes : GetMut(raw)
    \/ LenAction
    \/ IsEmpty
    \/ Keys
    \/ Values
    \/ \E pos \in Positions \cup OutOfRange : Absent(pos)
    \/ \E pos \in OutOfRange : oob_panic(pos)

BmpSpec == BmpInit /\ [][BmpNext]_vars

-----------------------------------------------------------------------------
(* DNS names: limits, untrusted bytes, results                              *)

MAX_NAME == 255
MAX_LLEN == 63
MAX_LABS == (MAX_NAME - 1) \div 2 + 1

Ok(v) == [ok |-> TRUE, val |-> v]
Err(e) == [ok |-> FALSE, err |-> e]

to_ascii_lowercase_verbatim(b) == b

\* u8::to_ascii_lowercase
to_ascii_lowercase(b) == IF b \in 65 .. 90 THEN b + 32 ELSE b

Dodgy_get_unchecked(bytes, pos) ==
    IF pos < Len(bytes) THEN Ok(bytes[pos + 1]) ELSE Ok(0)

\* Dodgy::get: bytes.get(pos) or NameTruncated
Dodgy_get(bytes, pos) ==
    IF pos < Len(bytes) THEN Ok(bytes[pos + 1]) ELSE Err(<<"NameTruncated">>)

PointerTarget_unmasked(hi, lo) == hi * 256 + lo

\* The 14-bit target of a compression pointer
PointerTarget(hi, lo) == (hi % 64) * 256 + lo

pointer_refused_if_above(max, pos) == max < pos

pointer_refused_never(max, pos) == FALSE

\* `max <= pos`: the pointer does not go below every position met so far
pointer_refused(max, pos) == max <= pos

\* An upper bound on the iterations of a wire parse that starts at `pos`: each
\* one emits a label, follows a pointer or returns.  A parse that uses it up
\* is reported as Err(<<"Diverged">>), which the code has no way to produce.
Fuel(pos) == MAX_LABS + pos + 2

\* the k for which 16^k iterations are the least that are n or more
RunLevels(n) == CHOOSE k \in 1 .. 5 : 16 ^ k >= n /\ (k = 1 \/ 16 ^ (k - 1) < n)

\* ScratchPad<T, SIZE>::push on the initialized prefix `self`
ScratchPad_push(self, SIZE, elem) ==
    IF Len(self) < SIZE THEN Ok(Append(self, elem)) ELSE Err(<<"ScratchOverflow">>)

\* ScratchPad::get_mut: uninit.get_mut(pos).ok_or(ScratchOverflow)
ScratchPad_get_mut(SIZE, pos) ==
    IF pos < SIZE THEN Ok(pos) ELSE Err(<<"ScratchOverflow">>)

\* usize::MAX where usize is narrowest; on every target it is above SIZE
USIZE_MAX == 65535

\* ScratchPad::append on the initialized prefix `self`: [pad, ret], ret
\* a panic when `self.end + len - 1` goes below zero in a build that checks
\* arithmetic; in one that does not it wraps to usize::MAX
ScratchPad_append(self, SIZE, elems, overflow_checks) ==
    LET len == Len(elems)
        dst == ScratchPad_get_mut(SIZE, Len(self))
        last == IF Len(self) + len = 0 THEN USIZE_MAX ELSE Len(self) + len - 1
    IN  IF ~dst.ok THEN [pad |-> self, ret |-> dst]
        ELSE IF Len(self) + len = 0 /\ overflow_checks
        THEN [pad |-> self, ret |-> [panic |-> TRUE]]
        ELSE IF ~ScratchPad_get_mut(SIZE, last).ok
        THEN [pad |-> self, ret |-> ScratchPad_get_mut(SIZE, last)]
        ELSE [pad |-> self \o elems, ret |-> Ok(0)]

\* ScratchPad::clear
ScratchPad_clear(self) == <<>>

-----------------------------------------------------------------------------
(* ScratchName: [lpos, name], the initialized parts of its two pads         *)

ScratchName_new == [lpos |-> <<>>, name |-> <<>>]
ScratchName_clear(self) == [lpos |-> <<>>, name |-> <<>>]
ScratchName_labs(self) == Len(self.lpos)
ScratchName_nlen(self) == Len(self.name)

\* A byte was produced for an index that is not in the slice
OutOfBounds(bytes, pos, r) == r.ok /\ pos >= Len(bytes)

Added(this, ret, oob) == [this |-> this, ret |-> ret, oob |-> oob]

\* the `for i in 0..llen` loop of add_label on a = [this, ret, oob], for
\* the indexes lo .. hi - 1, the first half of them before the rest
RECURSIVE add_label_bytes(_, _, _, _, _)
add_label_bytes(a, dodgy, rpos, lo, hi) ==
    IF lo >= hi \/ ~a.ret.ok THEN a
    ELSE IF hi = lo + 1
    THEN LET b == Dodgy_get(dodgy, rpos + lo)
             oob == a.oob \/ OutOfBounds(dodgy, rpos + lo, b)
             w == ScratchPad_push(a.this.name, MAX_NAME,
                                  to_ascii_lowercase(b.val))
         IN  IF ~b.ok THEN Added(a.this, b, oob)
             ELSE IF ~w.ok THEN Added(a.this, w, oob)
             ELSE Added([a.this EXCEPT !.name = w.val], Ok(0), oob)
    ELSE LET half == add_label_bytes(a, dodgy, rpos, lo, (lo + hi) \div 2)
         IN  IF ~half.ret.ok THEN half
             ELSE add_label_bytes(half, dodgy, rpos, (lo + hi) \div 2, hi)

\* ScratchName::add_label: [this, ret, oob]
add_label(self, dodgy, rpos, llen) ==
    IF ScratchName_nlen(self) > 255
    THEN Added(self, Err(<<"NameLengthWat">>), FALSE)
    ELSE LET l == ScratchPad_push(self.lpos, MAX_LABS, ScratchName_nlen(self))
         IN  IF ~l.ok THEN Added(self, l, FALSE)
             ELSE LET s1 == [self EXCEPT !.lpos = l.val]
                      n == ScratchPad_push(s1.name, MAX_NAME, llen)
                  IN  IF ~n.ok THEN Added(s1, n, FALSE)
                      ELSE add_label_bytes(
                               Added([s1 EXCEPT !.name = n.val], Ok(0), FALSE),
                               dodgy, rpos, 0, llen)

-----------------------------------------------------------------------------
(* WireLabels<P>: [lpos, nlen, wire, pmax]; pmax is the largest P            *)

U8_MAX == 255
U16_MAX == 65535

WireLabels_new(pmax) == [lpos |-> <<>>, nlen |-> 0, wire |-> None, pmax |-> pmax]
WireLabels_clear(self) == [self EXCEPT !.lpos = <<>>, !.nlen = 0, !.wire = None]

\* from_usize: P::try_from(pos).or(Err(BugWirePos(pos)))
from_usize(pmax, pos) == IF pos <= pmax THEN Ok(pos) ELSE Err(<<"BugWirePos", pos>>)

\* WireLabels::label: the label's text in the borrowed wire, or None
WireLabels_label(self, lab) ==
    IF lab >= Len(self.lpos) \/ self.wire = None THEN None
    ELSE LET w == self.wire[1]
             pos == self.lpos[lab + 1]
         IN  IF pos >= Len(w) THEN None
             ELSE IF pos + w[pos + 1] >= Len(w) THEN None
             ELSE Some(SubSeq(w, pos + 2, pos + 1 + w[pos + 1]))

\* WireLabels::label_from_wire: [this, ret, oob]; ArrayVec::try_push fails when
\* MAX_LABS positions are held
label_from_wire(self, pos, llen) ==
    LET p == from_usize(self.pmax, pos)
        s1 == [self EXCEPT !.lpos = Append(@, pos), !.nlen = @ + 1 + llen]
    IN  IF ~p.ok THEN Added(self, p, FALSE)
        ELSE IF Len(self.lpos) >= MAX_LABS
        THEN Added(self, Err(<<"NameLabels">>), FALSE)
        ELSE IF s1.nlen > 255 THEN Added(s1, Err(<<"NameLength">>), FALSE)
        ELSE Added(s1, Ok(0), FALSE)

-----------------------------------------------------------------------------
(* The wire parser: the `loop` of ScratchName::dodgy_from_wire, which is    *)
(* the `loop` of name_from_wire with add_label for label_from_wire          *)

IsWireLabels(n) == "wire" \in DOMAIN n

\* The locals of the parse: this, pos, max, end; what it did: the targets of
\* the pointers it decoded (seen), where it decoded them (ptrs), the targets
\* of those it went on from (followed), the number of labels emitted, whether
\* a byte was taken from outside the slice; and ret, None until the loop
\* returns
LoopStart(this, pos) ==
    [this |-> this, pos |-> pos, max |-> pos, end |-> pos,
     seen |-> <<>>, ptrs |-> <<>>, followed |-> <<>>, emitted |-> 0,
     oob |-> FALSE, ret |-> None]

Returned(L, ret) == [L EXCEPT !.ret = Some(ret)]

\* the rest of an iteration for a length byte llen, `a` being what add_label
\* or label_from_wire returned for it
dodgy_from_wire_label(L, llen, a) ==
    LET L3 == [L EXCEPT !.this = a.this, !.oob = @ \/ a.oob]
        L4 == [L3 EXCEPT !.pos = @ + 1 + llen,
                         !.end = Max(@, L.pos + 1 + llen),
                         !.emitted = @ + 1]
    IN  IF ~a.ret.ok THEN Returned(L3, a.ret)
        ELSE IF llen = 0 THEN Returned(L4, Ok(L4.end))
        ELSE L4

\* one iteration of `loop`
dodgy_from_wire_step(dodgy, L) ==
    LET first == Dodgy_get(dodgy, L.pos)
        L0 == [L EXCEPT !.oob = @ \/ OutOfBounds(dodgy, L.pos, first)]
        \* hi @ 0xC0..=0xFF
        lo == Dodgy_get(dodgy, L.pos + 1)
        pos == PointerTarget(first.val, IF lo.ok THEN lo.val ELSE 0)
        there == Dodgy_get(dodgy, pos)
        L1 == [L0 EXCEPT !.end = Max(@, L.pos + 2),
                         !.oob = @ \/ OutOfBounds(dodgy, L.pos + 1, lo)]
        L2 == [L1 EXCEPT !.pos = pos, !.seen = Append(@, pos),
                         !.ptrs = Append(@, L.pos),
                         !.oob = @ \/ OutOfBounds(dodgy, pos, there)]
    IN  IF ~first.ok THEN Returned(L0, first)
        ELSE IF first.val \in 64 .. 191
        THEN Returned(L0, Err(<<"LabelType", first.val>>))
        ELSE IF first.val \in 192 .. 255
        THEN IF ~lo.ok THEN Returned(L1, lo)
             ELSE IF ~there.ok THEN Returned(L2, there)
             ELSE IF there.val \in 192 .. 255
             THEN Returned(L2, Err(<<"CompressChain">>))
             ELSE IF pointer_refused(L.max, pos)
             THEN Returned(L2, Err(<<"CompressBad">>))
             ELSE [L2 EXCEPT !.max = pos, !.followed = Append(@, pos)]
        \* len @ 0x00..=0x3F
        ELSE dodgy_from_wire_label(L0, first.val,
                 IF IsWireLabels(L.this)
                 THEN label_from_wire(L.this, L.pos, first.val)
                 ELSE add_label(L.this, dodgy, L.pos + 1, first.val))

\* at most 16^k iterations of `loop`, one after the other
RECURSIVE dodgy_from_wire_run(_, _, _)
dodgy_from_wire_run(dodgy, L, k) ==
    IF k = 0 THEN dodgy_from_wire_step(dodgy, L)
    ELSE LET L1 == dodgy_from_wire_run(dodgy, L, k - 1)
             L2 == dodgy_from_wire_run(dodgy, L1, k - 1)
             L3 == dodgy_from_wire_run(dodgy, L2, k - 1)
             L4 == dodgy_from_wire_run(dodgy, L3, k - 1)
             L5 == dodgy_from_wire_run(dodgy, L4, k - 1)
             L6 == dodgy_from_wire_run(dodgy, L5, k - 1)
             L7 == dodgy_from_wire_run(dodgy, L6, k - 1)
             L8 == dodgy_from_wire_run(dodgy, L7, k - 1)
             L9 == dodgy_from_wire_run(dodgy, L8, k - 1)
             L10 == dodgy_from_wire_run(dodgy, L9, k - 1)
             L11 == dodgy_from_wire_run(dodgy, L10, k - 1)
             L12 == dodgy_from_wire_run(dodgy, L11, k - 1)
             L13 == dodgy_from_wire_run(dodgy, L12, k - 1)
             L14 == dodgy_from_wire_run(dodgy, L13, k - 1)
             L15 == dodgy_from_wire_run(dodgy, L14, k - 1)
         IN  CASE L1.ret # None -> L1 [] L2.ret # None -> L2
               [] L3.ret # None -> L3 [] L4.ret # None -> L4
               [] L5.ret # None -> L5 [] L6.ret # None -> L6
               [] L7.ret # None -> L7 [] L8.ret # None -> L8
               [] L9.ret # None -> L9 [] L10.ret # None -> L10
               [] L11.ret # None -> L11 [] L12.ret # None -> L12
               [] L13.ret # None -> L13 [] L14.ret # None -> L14
               [] L15.ret # None -> L15
               [] OTHER -> dodgy_from_wire_run(dodgy, L15, k - 1)

\* what a parse leaves when its loop has ended: [this, ret, trace]
Done(L) ==
    [this |-> L.this,
     ret |-> IF L.ret = None THEN Err(<<"Diverged">>) ELSE L.ret[1],
     trace |-> [seen |-> L.seen, ptrs |-> L.ptrs, followed |-> L.followed,
                emitted |-> L.emitted, oob |-> L.oob]]

\* dodgy_from_wire: the loop makes at most Fuel(pos) iterations
dodgy_from_wire(self, dodgy, pos) ==
    Done(dodgy_from_wire_run(dodgy, LoopStart(self, pos), RunLevels(Fuel(pos))))

\* .map_err(|err| self.clear_err(err)), and the `self.clear(); return Err`
\* of WireLabels::from_wire
clear_err(r) ==
    IF r.ret.ok THEN r
    ELSE [r EXCEPT !.this = IF IsWireLabels(@) THEN WireLabels_clear(@)
                            ELSE ScratchName_clear(@)]

ScratchName_from_wire_noclear(self, wire, pos) == dodgy_from_wire(self, wire, pos)

\* ScratchName::from_wire
ScratchName_from_wire(self, wire, pos) == clear_err(dodgy_from_wire(self, wire, pos))

\* WireLabels::from_wire: clear, borrow the wire, parse
WireLabels_from_wire(self, wire, pos) ==
    clear_err(dodgy_from_wire([WireLabels_clear(self) EXCEPT !.wire = Some(wire)],
                              wire, pos))

-----------------------------------------------------------------------------
(* The text parser (ScratchName::dodgy_from_text)                           *)

\* what check_or_add leaves and returns when add_label returned `a` for the
\* label, or for the root label when `what` is FALSE
check_or_add_label(t, what, a) ==
    [t |-> IF what
           THEN [t EXCEPT !.self = a.this,
                          !.root = @ + (IF t.label = <<>> THEN 1 ELSE 0),
                          !.sub = @ + (IF t.label = <<>> THEN 0 ELSE 1),
                          !.label = <<>>]
           ELSE [t EXCEPT !.self = a.this],
     ret |-> a.ret]

check_or_add_lenient(t, what) ==
    IF what /\ Len(t.label) > 255
    THEN [t |-> t, ret |-> Err(<<"LabelLengthWat">>)]
    ELSE IF ~what /\ (t.root > 1 \/ (t.root = 0 /\ t.sub = 0))
    THEN [t |-> t, ret |-> Err(<<"NameSyntax">>)]
    ELSE IF ~what /\ t.root # 0 THEN [t |-> t, ret |-> Ok(0)]
    ELSE check_or_add_label(t, what,
             add_label(t.self, IF what THEN t.label ELSE <<>>, 0,
                       IF what THEN Len(t.label) ELSE 0))

\* The closure check_or_add of dodgy_from_text, on the locals
\* t = [self, label, root, sub, pos, ret]; `what` is TRUE for
\* Some(&mut label) and FALSE for None: [t, ret]
check_or_add(t, what) ==
    IF what /\ Len(t.label) > 255
    THEN [t |-> t, ret |-> Err(<<"LabelLengthWat">>)]
    ELSE IF ~what /\ (t.root > 1 \/ (t.root > 0 /\ t.sub > 0)
                          \/ (t.root = 0 /\ t.sub = 0))
    THEN [t |-> t, ret |-> Err(<<"NameSyntax">>)]
    ELSE IF ~what /\ t.root # 0 THEN [t |-> t, ret |-> Ok(0)]
    ELSE check_or_add_label(t, what,
             add_label(t.self, IF what THEN t.label ELSE <<>>, 0,
                       IF what THEN Len(t.label) ELSE 0))

\* one iteration of `for _ in 1..=3` of the escape: e = [num, pos]
escape_digit(dodgy, e) ==
    LET b == Dodgy_get(dodgy, e.pos)
    IN  IF b.ok /\ b.val \in 48 .. 57
        THEN [num |-> Some((IF e.num = None THEN 0 ELSE e.num[1]) * 10
                               + (b.val - 48)),
              pos |-> e.pos + 1]
        ELSE e

\* the `?` on what check_or_add returned: its error is returned, or the parse
\* goes on at pos
check_or_return(c, pos) ==
    IF ~c.ret.ok THEN Returned(c.t, c.ret) ELSE [c.t EXCEPT !.pos = pos]

\* the last lines of dodgy_from_text: check_or_add(None)? and Ok(pos), unless
\* the check before them has returned
dodgy_from_text_ok(t) == IF t.ret # None THEN t ELSE Returned(t, Ok(t.pos))
dodgy_from_text_root(t) ==
    IF t.ret # None THEN t
    ELSE dodgy_from_text_ok(check_or_return(check_or_add(t, FALSE), t.pos))

\* what follows the `while let` loop of dodgy_from_text
dodgy_from_text_end(t) ==
    dodgy_from_text_root(IF t.label # <<>>
                         THEN check_or_return(check_or_add(t, TRUE), t.pos)
                         ELSE t)

\* label.push(byte)?, the next iteration being at pos
dodgy_from_text_push(t, byte, pos) ==
    LET l == ScratchPad_push(t.label, MAX_LLEN, byte)
    IN  IF ~l.ok THEN Returned(t, l)
        ELSE [t EXCEPT !.label = l.val, !.pos = pos]

\* one iteration of `while let Ok(byte) = dodgy.get(pos)`
dodgy_from_text_step(dodgy, t) ==
    LET g == Dodgy_get(dodgy, t.pos)
        e == escape_digit(dodgy, escape_digit(dodgy, escape_digit(dodgy,
                 [num |-> None, pos |-> t.pos + 1])))
        n == Dodgy_get(dodgy, e.pos)
    IN  IF ~g.ok THEN dodgy_from_text_end(t)
        ELSE IF g.val = 34 THEN Returned(t, Err(<<"NameSyntax">>))
        ELSE IF g.val \in {10, 13, 9, 32, 59, 40, 41} THEN dodgy_from_text_end(t)
        ELSE IF g.val = 92
        THEN IF e.num # None
             THEN IF e.num[1] > 255
                  THEN Returned(t, Err(<<"EscapeBad", e.num[1]>>))
                  ELSE dodgy_from_text_push(t, e.num[1], e.pos)
             ELSE IF ~n.ok THEN Returned(t, n)
             ELSE dodgy_from_text_push(t, n.val, e.pos + 1)
        ELSE IF g.val = 46
        THEN check_or_return(check_or_add(t, TRUE), t.pos + 1)
        ELSE dodgy_from_text_push(t, g.val, t.pos + 1)

\* at most 16^k iterations of `while let`, one after the other
RECURSIVE dodgy_from_text_run(_, _, _)
dodgy_from_text_run(dodgy, t, k) ==
    IF k = 0 THEN dodgy_from_text_step(dodgy, t)
    ELSE LET t1 == dodgy_from_text_run(dodgy, t, k - 1)
             t2 == dodgy_from_text_run(dodgy, t1, k - 1)
             t3 == dodgy_from_text_run(dodgy, t2, k - 1)
             t4 == dodgy_from_text_run(dodgy, t3, k - 1)
             t5 == dodgy_from_text_run(dodgy, t4, k - 1)
             t6 == dodgy_from_text_run(dodgy, t5, k - 1)
             t7 == dodgy_from_text_run(dodgy, t6, k - 1)
             t8 == dodgy_from_text_run(dodgy, t7, k - 1)
             t9 == dodgy_from_text_run(dodgy, t8, k - 1)
             t10 == dodgy_from_text_run(dodgy, t9, k - 1)
             t11 == dodgy_from_text_run(dodgy, t10, k - 1)
             t12 == dodgy_from_text_run(dodgy, t11, k - 1)
             t13 == dodgy_from_text_run(dodgy, t12, k - 1)
             t14 == dodgy_from_text_run(dodgy, t13, k - 1)
             t15 == dodgy_from_text_run(dodgy, t14, k - 1)
         IN  CASE t1.ret # None -> t1 [] t2.ret # None -> t2
               [] t3.ret # None -> t3 [] t4.ret # None -> t4
               [] t5.ret # None -> t5 [] t6.ret # None -> t6
               [] t7.ret # None -> t7 [] t8.ret # None -> t8
               [] t9.ret # None -> t9 [] t10.ret # None -> t10
               [] t11.ret # None -> t11 [] t12.ret # None -> t12
               [] t13.ret # None -> t13 [] t14.ret # None -> t14
               [] t15.ret # None -> t15
               [] OTHER -> dodgy_from_text_run(dodgy, t15, k - 1)

\* ScratchName::dodgy_from_text: [this, ret]; every iteration but the last
\* takes at least one byte, so there are at most Len(dodgy) + 1 of them
dodgy_from_text(self, dodgy) ==
    LET t == dodgy_from_text_run(dodgy,
                 [self |-> self, label |-> <<>>, root |-> 0, sub |-> 0,
                  pos |-> 0, ret |-> None],
                 RunLevels(Len(dodgy) + 1))
    IN  [this |-> t.self,
         ret |-> IF t.ret = None THEN Err(<<"Diverged">>) ELSE t.ret[1]]

\* ScratchName::from_text
ScratchName_from_text(self, text) == clear_err(dodgy_from_text(self, text))

-----------------------------------------------------------------------------
(* The text parser of dnsname/mod.rs (name_from_text), on the locals        *)
(* t = [self, label, root, sub, pos, ret, stuck]; stuck says that an        *)
(* iteration of the loop ended where it began, with pos as it was           *)

\* the closure append_label: [t, ret]
append_label(t, what) ==
    IF ~what /\ (t.root > 1 \/ (t.root > 0 /\ t.sub > 0)
                     \/ (t.root = 0 /\ t.sub = 0))
    THEN [t |-> t, ret |-> Err(<<"NameSyntax">>)]
    ELSE IF ~what /\ t.root # 0 THEN [t |-> t, ret |-> Ok(0)]
    ELSE check_or_add_label(t, what,
             label_from_wire(t.self, 0, IF what THEN Len(t.label) % 256 ELSE 0))

\* what follows the `while let` loop of name_from_text
name_from_text_end(t) ==
    LET t1 == IF t.label # <<>>
              THEN check_or_return(append_label(t, TRUE), t.pos)
              ELSE t
    IN  IF t1.ret # None THEN t1
        ELSE dodgy_from_text_ok(check_or_return(append_label(t1, FALSE), t1.pos))

\* one iteration of `while let Ok(byte) = text.get(pos)`
name_from_text_step(text, t) ==
    LET g == Dodgy_get(text, t.pos)
        e == escape_digit(text, escape_digit(text, escape_digit(text,
                 [num |-> None, pos |-> t.pos + 1])))
        n == Dodgy_get(text, e.pos)
    IN  IF ~g.ok THEN name_from_text_end(t)
        ELSE IF g.val \in {10, 13, 9, 32, 59, 40, 41} THEN name_from_text_end(t)
        ELSE IF g.val = 34 THEN Returned(t, Err(<<"NameSyntax">>))
        ELSE IF g.val = 92
        THEN IF e.num # None
             THEN IF e.num[1] > 255
                  THEN Returned(t, Err(<<"EscapeBad", e.num[1]>>))
                  ELSE dodgy_from_text_push(t, e.num[1], e.pos)
             ELSE IF ~n.ok THEN Returned(t, n)
             ELSE dodgy_from_text_push(t, n.val, e.pos)
        ELSE IF g.val = 46
        THEN check_or_return(append_label(t, TRUE), t.pos)
        ELSE dodgy_from_text_push(t, g.val, t.pos)

\* at most 2^k iterations of `while let`, one after the other
RECURSIVE name_from_text_run(_, _, _)
name_from_text_run(text, t, k) ==
    IF k = 0
    THEN LET n == name_from_text_step(text, t)
         IN  [n EXCEPT !.stuck = @ \/ (n.ret = None /\ n.pos = t.pos)]
    ELSE LET half == name_from_text_run(text, t, k - 1)
         IN  IF half.ret # None THEN half
             ELSE name_from_text_run(text, half, k - 1)

\* an iteration that leaves pos as it is pushes a byte to the label, which
\* holds MAX_LLEN, or a position to the labels, which hold MAX_LABS: the
\* loop makes less than 2^TextLevels iterations
TextLevels == 10

\* name_from_text: [this, ret, stuck]
name_from_text(this, text, pos) ==
    LET t == name_from_text_run(text,
                 [self |-> this, label |-> <<>>, root |-> 0, sub |-> 0,
                  pos |-> pos, ret |-> None, stuck |-> FALSE],
                 TextLevels)
    IN  [this |-> t.self,
         ret |-> IF t.ret = None THEN Err(<<"Diverged">>) ELSE t.ret[1],
         stuck |-> t.stuck]

-----------------------------------------------------------------------------
(* HeapName: [mem], the allocation [labs][lpos x labs][name x nlen]          *)

HeapName_labs(self) == self.mem[1]
HeapName_nlen(self) == self.mem[HeapName_labs(self) + 1] + 1
HeapName_lpos(self) == SubSeq(self.mem, 2, 1 + HeapName_labs(self))
HeapName_name(self) ==
    SubSeq(self.mem, 2 + HeapName_labs(self),
           1 + HeapName_labs(self) + HeapName_nlen(self))

\* HeapLen::heap_len of a HeapName, the size that Drop hands back
HeapName_heap_len(self) == 1 + HeapName_labs(self) + HeapName_nlen(self)

\* HeapName::from(&ScratchName)
HeapName_from_ScratchName(scratch) ==
    [mem |-> <<ScratchName_labs(scratch) % 256>> \o scratch.lpos \o scratch.name]

\* what follows scratch.from_text(text.as_bytes()) in HeapName::try_from(&str),
\* r being what from_text left and returned
try_from_str_end(r, text) ==
    IF ~r.ret.ok THEN r.ret
    ELSE IF r.ret.val = Len(text)
    THEN Ok(HeapName_from_ScratchName(r.this))
    ELSE Err(<<"NameTrailing">>)

HeapName_try_from_str_trailing(text) ==
    try_from_str_end(ScratchName_from_text(ScratchName_new, text),
                     SubSeq(text, 1, ScratchName_from_text(ScratchName_new, text).ret.val))

\* HeapName::try_from(&str)
HeapName_try_from_str(text) ==
    try_from_str_end(ScratchName_from_text(ScratchName_new, text), text)

\* vec[i] = v; an index outside the vector panics
VecPut(acc, i, v) ==
    IF acc.panic \/ i >= Len(acc.vec) THEN [acc EXCEPT !.panic = TRUE]
    ELSE [acc EXCEPT !.vec[i + 1] = v]

RECURSIVE heap_label_bytes(_, _, _, _)
heap_label_bytes_verbatim(acc, label, lo, hi) ==
    IF lo >= hi \/ acc.panic THEN acc
    ELSE IF hi = lo + 1
    THEN [VecPut(acc, acc.npos, label[hi]) EXCEPT !.npos = @ + 1]
    ELSE LET half == heap_label_bytes(acc, label, lo, (lo + hi) \div 2)
         IN  IF half.panic THEN half
             ELSE heap_label_bytes(half, label, (lo + hi) \div 2, hi)

\* the `for ch in label` loop of HeapName::from(&WireLabels), for the bytes
\* lo .. hi - 1 of the label, the first half of them before the rest
heap_label_bytes(acc, label, lo, hi) ==
    IF lo >= hi \/ acc.panic THEN acc
    ELSE IF hi = lo + 1
    THEN [VecPut(acc, acc.npos, to_ascii_lowercase(label[hi]))
             EXCEPT !.npos = @ + 1]
    ELSE LET half == heap_label_bytes(acc, label, lo, (lo + hi) \div 2)
         IN  IF half.panic THEN half
             ELSE heap_label_bytes(half, label, (lo + hi) \div 2, hi)

\* the `for lab in 0..labs` loop of HeapName::from(&WireLabels), for the
\* labels lo .. hi - 1, the first half of them before the rest
RECURSIVE heap_labels(_, _, _, _)
heap_labels(acc, wire, lo, hi) ==
    IF lo >= hi \/ acc.panic THEN acc
    ELSE IF hi = lo + 1
    THEN LET label == WireLabels_label(wire, lo)
         IN  IF label = None THEN [acc EXCEPT !.panic = TRUE]
             ELSE LET llen == Len(label[1]) % 256
                      a1 == VecPut(acc, lo + 1, acc.lpos)
                      a2 == [a1 EXCEPT !.lpos = (@ + 1 + llen) % 256]
                      a3 == [VecPut(a2, a2.npos, llen) EXCEPT !.npos = @ + 1]
                  IN  heap_label_bytes(a3, label[1], 0, Len(label[1]))
    ELSE LET half == heap_labels(acc, wire, lo, (lo + hi) \div 2)
         IN  IF half.panic THEN half
             ELSE heap_labels(half, wire, (lo + hi) \div 2, hi)

\* HeapName::from(&WireLabels): [mem, panic]
HeapName_from_WireLabels(wire) ==
    LET labs == Len(wire.lpos)
        heap_len == 1 + labs + wire.nlen
        acc == heap_labels([vec |-> [i \in 1 .. heap_len |-> IF i = 1
                                                        THEN labs % 256 ELSE 0],
                            lpos |-> 0, npos |-> labs + 1, panic |-> FALSE],
                           wire, 0, labs)
    IN  [mem |-> acc.vec, panic |-> acc.panic]

-----------------------------------------------------------------------------
(* The name traits, dispatched on the representation                        *)

IsHeapName(n) == "mem" \in DOMAIN n

DnsLabels_labs(n) == IF IsHeapName(n) THEN HeapName_labs(n) ELSE Len(n.lpos)
DnsName_lpos(n) == IF IsHeapName(n) THEN HeapName_lpos(n) ELSE n.lpos
DnsName_name(n) == IF IsHeapName(n) THEN HeapName_name(n) ELSE n.name

\* DnsName::label for a ScratchName or a HeapName: the text of label `lab`,
\* without its length byte
DnsName_label(n, lab) ==
    IF lab >= DnsLabels_labs(n) THEN None
    ELSE LET name == DnsName_name(n)
             pos == DnsName_lpos(n)[lab + 1]
         IN  IF pos >= Len(name) THEN None
             ELSE IF pos + name[pos + 1] >= Len(name) THEN None
             ELSE Some(SubSeq(name, pos + 2, pos + 1 + name[pos + 1]))

DnsLabels_label(n, lab) ==
    IF IsWireLabels(n) THEN WireLabels_label(n, lab) ELSE DnsName_label(n, lab)

\* DnsLabels::rlabel: label `lab` counted from the root, which is rlabel(0)
rlabel(n, lab) ==
    IF lab >= DnsLabels_labs(n) THEN None
    ELSE DnsLabels_label(n, DnsLabels_labs(n) - 1 - lab)

\* DnsName::label as DnsName::to_text takes it: "a slice covering a label's
\* length byte and its text"
DnsName_label_slice(n, lab) ==
    IF lab >= DnsLabels_labs(n) THEN None
    ELSE LET name == DnsName_name(n)
             pos == DnsName_lpos(n)[lab + 1]
         IN  IF pos >= Len(name) THEN None
             ELSE IF pos + name[pos + 1] >= Len(name) THEN None
             ELSE Some(SubSeq(name, pos + 1, pos + 1 + name[pos + 1]))

to_text_byte_plain_dot(byte) ==
    IF byte \in {42, 45, 46, 95} \cup (48 .. 57) \cup (65 .. 90) \cup (97 .. 122)
    THEN <<byte>>
    ELSE IF byte \in 33 .. 126 THEN <<92, byte>>
    ELSE <<92, 48 + (byte \div 100), 48 + ((byte \div 10) % 10), 48 + (byte % 10)>>

\* the `match byte` of to_text: what it writes for one byte of a label
to_text_byte(byte) ==
    IF byte \in {42, 45, 95} \cup (48 .. 57) \cup (65 .. 90) \cup (97 .. 122)
    THEN <<byte>>
    ELSE IF byte \in 33 .. 126 THEN <<92, byte>>
    ELSE <<92, 48 + (byte \div 100), 48 + ((byte \div 10) % 10), 48 + (byte % 10)>>

\* the `for &byte in text.iter()` loop of to_text, for the bytes lo .. hi - 1
\* of &label[1..], the first half of them before the rest
RECURSIVE to_text_bytes(_, _, _)
to_text_bytes(label, lo, hi) ==
    IF lo >= hi THEN <<>>
    ELSE IF hi = lo + 1 THEN to_text_byte(label[hi + 1])
    ELSE to_text_bytes(label, lo, (lo + hi) \div 2)
             \o to_text_bytes(label, (lo + hi) \div 2, hi)

\* the `for lab in 0..labs` loop of to_text, for the labels lo .. hi - 1, the
\* first half of them before the rest: Err when a label is missing
\* the body of the `for lab` loop of to_text for a label, with its length
\* byte, that is followed by a dot or not: Err when the label is missing
to_text_label(label, dot) ==
    IF label = None THEN Err(<<"fmt::Error">>)
    ELSE Ok(to_text_bytes(label[1], 0, Len(label[1]) - 1)
            \o (IF dot THEN <<46>> ELSE <<>>))

to_text_join(left, right) ==
    IF ~left.ok THEN left
    ELSE IF ~right.ok THEN right
    ELSE Ok(left.val \o right.val)

RECURSIVE to_text_labels(_, _, _)
to_text_labels(n, lo, hi) ==
    IF lo >= hi THEN Ok(<<>>)
    ELSE IF hi = lo + 1
    THEN to_text_label(DnsName_label_slice(n, lo),
                       lo = 0 \/ lo + 2 < DnsLabels_labs(n))
    ELSE to_text_join(to_text_labels(n, lo, (lo + hi) \div 2),
                      to_text_labels(n, (lo + hi) \div 2, hi))

\* DnsName::to_text: [ok, val], val the text written
to_text(n) == to_text_labels(n, 0, DnsLabels_labs(n))

\* Ord for Option<u8> and for u8
cmp_option(a, b) ==
    IF a = None /\ b = None THEN "Equal"
    ELSE IF a = None THEN "Less"
    ELSE IF b = None THEN "Greater"
    ELSE IF a[1] < b[1] THEN "Less"
    ELSE IF a[1] > b[1] THEN "Greater"
    ELSE "Equal"

slice_get(s, i) == IF i < Len(s) THEN Some(s[i + 1]) ELSE None

\* Ord for [u8]: lexicographic, a proper prefix is Less
RECURSIVE slice_cmp_from(_, _, _, _)
slice_cmp_from(aa, bb, lo, hi) ==
    IF lo >= hi THEN None
    ELSE IF hi = lo + 1
    THEN LET c == cmp_option(slice_get(aa, lo), slice_get(bb, lo))
         IN  IF c # "Equal" THEN Some(c)
             ELSE IF lo >= Len(aa) THEN Some("Equal")
             ELSE None
    ELSE LET half == slice_cmp_from(aa, bb, lo, (lo + hi) \div 2)
         IN  IF half # None THEN half
             ELSE slice_cmp_from(aa, bb, (lo + hi) \div 2, hi)

slice_cmp(aa, bb) == slice_cmp_from(aa, bb, 0, Max(Len(aa), Len(bb)) + 1)[1]

option_lowercase(a) == IF a = None THEN None ELSE Some(to_ascii_lowercase(a[1]))

\* the `for chr in 0..` loop of cmp_any_labels, for the characters
\* lo .. hi - 1, the first half of them before the rest: Some(ordering) when
\* it returned
RECURSIVE cmp_any_labels_from(_, _, _, _)
cmp_any_labels_from(aa, bb, lo, hi) ==
    IF lo >= hi THEN None
    ELSE IF hi = lo + 1
    THEN LET a == option_lowercase(slice_get(aa, lo))
             b == option_lowercase(slice_get(bb, lo))
             c == cmp_option(a, b)
         IN  IF c = "Equal" /\ a = None /\ b = None THEN Some("Equal")
             ELSE IF c = "Equal" THEN None
             ELSE Some(c)
    ELSE LET half == cmp_any_labels_from(aa, bb, lo, (lo + hi) \div 2)
         IN  IF half # None THEN half
             ELSE cmp_any_labels_from(aa, bb, (lo + hi) \div 2, hi)

\* cmp_any_labels: the loop returns at the first character neither label has
cmp_any_labels(aa, bb) ==
    cmp_any_labels_from(aa, bb, 0, Max(Len(aa), Len(bb)) + 1)[1]

\* the `for lab in 0..` loop of cmp_any_names, for the labels lo .. hi - 1,
\* the first half of them before the rest: Some(ordering) when it returned
RECURSIVE cmp_any_names_from(_, _, _, _)
cmp_any_names_from(aa, bb, lo, hi) ==
    IF lo >= hi THEN None
    ELSE IF hi = lo + 1
    THEN LET a == rlabel(aa, lo)
             b == rlabel(bb, lo)
         IN  IF a = None /\ b = None THEN Some("Equal")
             ELSE IF a = None THEN Some("Less")
             ELSE IF b = None THEN Some("Greater")
             ELSE LET c == cmp_any_labels(a[1], b[1])
                  IN  IF c = "Equal" THEN None ELSE Some(c)
    ELSE LET half == cmp_any_names_from(aa, bb, lo, (lo + hi) \div 2)
         IN  IF half # None THEN half
             ELSE cmp_any_names_from(aa, bb, (lo + hi) \div 2, hi)

\* cmp_any_names: the loop returns at the first label neither name has
cmp_any_names(aa, bb) ==
    cmp_any_names_from(aa, bb, 0,
                       Max(DnsLabels_labs(aa), DnsLabels_labs(bb)) + 1)[1]

\* PartialEq for WireLabels
WireLabels_eq(self, other) == cmp_any_names(self, other) = "Equal"

\* PartialEq<Other: DnsName> for ScratchName
ScratchName_eq(self, other) == DnsName_name(self) = DnsName_name(other)

-----------------------------------------------------------------------------
(* Trie keys (triebits.rs)                                                  *)

SHIFT_BRANCH == 0
SHIFT_NOBYTE == 1
SHIFT_BITMAP == 2
SHIFT_OFFSET == 48
MAX_TRIENAME == MAX_NAME * 2 + 2
\* the size of the buffer make_dns_name builds the reversed name in
MAX_PNAME == MAX_NAME * 2

gen_byte_to_bits_step_noskip(st, byte) ==
    LET common == byte \in 45 .. 57 \/ byte \in 95 .. 122
        upper == byte \in 65 .. 90
        bump == ~st.escaping \/ st.bit_two >= SHIFT_OFFSET
        one == IF common \/ bump THEN (st.bit_one + 1) % 256 ELSE st.bit_one
        two == IF bump THEN SHIFT_BITMAP ELSE st.bit_two
    IN  IF common
        THEN [st EXCEPT !.escaping = FALSE, !.bit_one = one,
                        !.table = Append(@, <<one, 0>>)]
        ELSE IF upper
        THEN [st EXCEPT !.table = Append(@,
                 <<((st.bit_one + 1) + (byte - 65)) % 256, 0>>)]
        ELSE [st EXCEPT !.escaping = TRUE, !.bit_one = one,
                        !.bit_two = (two + 1) % 256,
                        !.table = Append(@, <<one, two>>)]

\* gen_byte_to_bits: one iteration of `loop`, on the locals
\* st = [bit_one, bit_two, escaping, table]
gen_byte_to_bits_step(st, byte) ==
    LET common == byte \in 45 .. 57 \/ byte \in 95 .. 122
        upper == byte \in 65 .. 90
        bump == ~st.escaping \/ st.bit_two >= SHIFT_OFFSET
        one == IF common \/ bump THEN (st.bit_one + 1) % 256 ELSE st.bit_one
        two == IF bump THEN SHIFT_BITMAP ELSE st.bit_two
    IN  IF common
        THEN [st EXCEPT !.escaping = FALSE, !.bit_one = one,
                        !.table = Append(@, <<one, 0>>)]
        ELSE IF upper
        THEN [st EXCEPT !.table = Append(@,
                 <<((st.bit_one + 1) + (97 - 95) + (byte - 65)) % 256, 0>>)]
        ELSE [st EXCEPT !.escaping = TRUE, !.bit_one = one,
                        !.bit_two = (two + 1) % 256,
                        !.table = Append(@, <<one, two>>)]

\* the iterations for bytes lo .. hi, in order
RECURSIVE gen_byte_to_bits_loop(_, _, _)
gen_byte_to_bits_loop(st, lo, hi) ==
    IF lo = hi THEN gen_byte_to_bits_step(st, lo)
    ELSE LET mid == (lo + hi) \div 2
             half == gen_byte_to_bits_loop(st, lo, mid)
         IN  IF Len(half.table) = mid + 1
             THEN gen_byte_to_bits_loop(half, mid + 1, hi)
             ELSE half

gen_byte_to_bits ==
    gen_byte_to_bits_loop([bit_one |-> SHIFT_BITMAP, bit_two |-> SHIFT_BITMAP,
                           escaping |-> TRUE, table |-> <<>>], 0, 255).table

\* BYTE_TO_BITS[c] is BYTE_TO_BITS_at(c)
BYTE_TO_BITS == gen_byte_to_bits

BYTE_TO_BITS_at_unfolded(c) ==
    IF c \in 65 .. 90 THEN <<16, 2 + (c - 65)>> ELSE BYTE_TO_BITS[c + 1]

BYTE_TO_BITS_at(c) == BYTE_TO_BITS[c + 1]

\* gen_bits_to_byte: one iteration of `loop` for a byte that is not upper
\* case (the loop steps over 'A' ..= 'Z')
gen_bits_to_byte_step(table, byte) ==
    LET bits == BYTE_TO_BITS_at(byte)
    IN  IF byte \in 65 .. 90 THEN table
        ELSE [table EXCEPT ![bits[1]][bits[2]] = byte]

\* the iterations for bytes lo .. hi, in order
RECURSIVE gen_bits_to_byte_loop(_, _, _)
gen_bits_to_byte_loop(table, lo, hi) ==
    IF lo = hi THEN gen_bits_to_byte_step(table, lo)
    ELSE LET mid == (lo + hi) \div 2
             half == gen_bits_to_byte_loop(table, lo, mid)
         IN  IF DOMAIN half = 0 .. 47
             THEN gen_bits_to_byte_loop(half, mid + 1, hi)
             ELSE half

gen_bits_to_byte ==
    gen_bits_to_byte_loop([one \in 0 .. 47 |-> [two \in 0 .. 47 |-> 0]], 0, 255)

BITS_TO_BYTE == gen_bits_to_byte

TrieName_new == [key |-> <<>>, panic |-> FALSE]

key_push_one_code(self, b) ==
    IF self.panic \/ Len(self.key) >= MAX_NAME + MAX_LABS
    THEN [self EXCEPT !.panic = TRUE]
    ELSE [self EXCEPT !.key = Append(@, b)]

\* ArrayVec::push: panics when MAX_TRIENAME elements are held
key_push(self, b) ==
    IF self.panic \/ Len(self.key) >= MAX_TRIENAME THEN [self EXCEPT !.panic = TRUE]
    ELSE [self EXCEPT !.key = Append(@, b)]

RECURSIVE from_dns_name_bytes(_, _, _, _)
from_dns_name_bytes_one_code(self, label, lo, hi) ==
    IF lo >= hi THEN self
    ELSE IF hi = lo + 1 THEN key_push(self, BYTE_TO_BITS_at(label[hi])[1])
    ELSE LET half == from_dns_name_bytes(self, label, lo, (lo + hi) \div 2)
         IN  IF half.panic THEN half
             ELSE from_dns_name_bytes(half, label, (lo + hi) \div 2, hi)

\* push(one) and, if two > 0, push(two)
from_dns_name_push(self, bits) ==
    IF bits[2] > 0 THEN key_push(key_push(self, bits[1]), bits[2])
    ELSE key_push(self, bits[1])

\* the `for &c in label` loop of from_dns_name, for the bytes lo .. hi - 1 of
\* the label, the first half of them before the rest
from_dns_name_bytes(self, label, lo, hi) ==
    IF lo >= hi THEN self
    ELSE IF hi = lo + 1 THEN from_dns_name_push(self, BYTE_TO_BITS_at(label[hi]))
    ELSE LET half == from_dns_name_bytes(self, label, lo, (lo + hi) \div 2)
         IN  IF half.panic THEN half
             ELSE from_dns_name_bytes(half, label, (lo + hi) \div 2, hi)

\* one label of the loop: its bytes, then NOBYTE; unwrap() of None panics
from_dns_name_label(self, label) ==
    IF label = None THEN [self EXCEPT !.panic = TRUE]
    ELSE key_push(from_dns_name_bytes(self, label[1], 0, Len(label[1])),
                  SHIFT_NOBYTE)

RECURSIVE from_dns_name_labels(_, _, _, _)
from_dns_name_labels_forward(self, name, lo, hi) ==
    IF lo >= hi THEN self
    ELSE IF hi = lo + 1
    THEN from_dns_name_label(self, DnsLabels_label(name, lo - 1))
    ELSE LET half == from_dns_name_labels(self, name, lo, (lo + hi) \div 2)
         IN  IF half.panic THEN half
             ELSE from_dns_name_labels(half, name, (lo + hi) \div 2, hi)

\* the `for lab in 1..name.labs()` loop of from_dns_name, for the labels
\* lo .. hi - 1, the first half of them before the rest
from_dns_name_labels(self, name, lo, hi) ==
    IF lo >= hi THEN self
    ELSE IF hi = lo + 1 THEN from_dns_name_label(self, rlabel(name, lo))
    ELSE LET half == from_dns_name_labels(self, name, lo, (lo + hi) \div 2)
         IN  IF half.panic THEN half
             ELSE from_dns_name_labels(half, name, (lo + hi) \div 2, hi)

\* TrieName::from_dns_name: [key, panic]
from_dns_name_unterminated(name) ==
    from_dns_name_labels(TrieName_new, name, 1, DnsLabels_labs(name))

\* TrieName::from_dns_name: [key, panic]
from_dns_name(name) ==
    key_push(from_dns_name_labels(TrieName_new, name, 1, DnsLabels_labs(name)),
             SHIFT_NOBYTE)

\* pname[i] = v; an index outside the array panics
pname_put(m, i, v) ==
    IF m.panic \/ i >= Len(m.pname) THEN [m EXCEPT !.panic = TRUE]
    ELSE [m EXCEPT !.pname[i + 1] = v]

\* BITS_TO_BYTE[one][two]; an index outside the table panics
bits_to_byte(one, two) ==
    IF one \in 0 .. 47 /\ two \in 0 .. 47 THEN Ok(BITS_TO_BYTE[one][two])
    ELSE Err(<<"panic">>)

\* one iteration of the `while let Some(one) = it.next()` loop of
\* make_dns_name; `it` is the index of the next key byte
make_dns_name_iter(key, m) ==
    IF m.it >= Len(key) \/ m.panic \/ m.err # None THEN m
    ELSE LET one == key[m.it + 1]
             llen == m.pos - m.lpos - 1
             single == bits_to_byte(one, 0)
         IN  IF one = SHIFT_NOBYTE
             THEN IF llen = 0 THEN m
                  ELSE LET m1 == pname_put(m, m.lpos, llen % 256)
                           m2 == pname_put(m1, m.pos, 192 + ((m.ppos \div 256) % 64))
                           m3 == pname_put(m2, m.pos + 1, m.ppos % 256)
                       IN  [m3 EXCEPT !.ppos = m.lpos, !.lpos = m.pos + 2,
                                      !.pos = m.pos + 3, !.it = @ + 1]
             ELSE IF ~single.ok THEN [m EXCEPT !.panic = TRUE]
             ELSE IF single.val # 0
             THEN [pname_put(m, m.pos, single.val)
                      EXCEPT !.pos = @ + 1, !.it = @ + 1]
             ELSE IF m.it + 1 >= Len(key)
             THEN [m EXCEPT !.err = Some(<<"BugTrieName">>)]
             ELSE LET double == bits_to_byte(one, key[m.it + 2])
                  IN  IF ~double.ok THEN [m EXCEPT !.panic = TRUE]
                      ELSE [pname_put(m, m.pos, double.val)
                               EXCEPT !.pos = @ + 1, !.it = @ + 2]

\* the `while let` loop of make_dns_name: 2^k iterations, the first half of
\* them before the rest; an iteration at which the loop has ended changes
\* nothing
RECURSIVE make_dns_name_loop(_, _, _)
make_dns_name_loop(key, m, k) ==
    IF k = 0 THEN make_dns_name_iter(key, m)
    ELSE LET half == make_dns_name_loop(key, m, k - 1)
         IN  IF half.it >= Len(key) \/ half.panic \/ half.err # None THEN half
             ELSE IF key[half.it + 1] = SHIFT_NOBYTE /\ half.pos - half.lpos - 1 = 0
             THEN half
             ELSE make_dns_name_loop(key, half, k - 1)

\* every iteration takes a byte of the key, which has at most MAX_TRIENAME
KeyLevels == 10

\* TrieName::make_dns_name: [ret, panic], ret an Ok(HeapName) or an Err
make_dns_name(key) ==
    LET m == make_dns_name_loop(key,
                 [pname |-> [i \in 1 .. MAX_PNAME |-> 0],
                  ppos |-> 0, lpos |-> 1, pos |-> 2, it |-> 0,
                  panic |-> FALSE, err |-> None], KeyLevels)
        w == WireLabels_from_wire(WireLabels_new(U16_MAX), m.pname, m.ppos)
        h == HeapName_from_WireLabels(w.this)
    IN  IF m.panic THEN [ret |-> Err(<<"panic">>), panic |-> TRUE]
        ELSE IF m.err # None THEN [ret |-> Err(m.err[1]), panic |-> FALSE]
        ELSE IF ~w.ret.ok THEN [ret |-> w.ret, panic |-> FALSE]
        ELSE [ret |-> Ok(h), panic |-> h.panic]

-----------------------------------------------------------------------------
(* exercise_vecs (test/triebits.rs) on pairs of valid names                  *)

\* Names of at most MaxNlen bytes on the wire, their text drawn from
\* TrieBytes; and the names of one label of one byte, for every byte
MaxNlen == 5
TrieBytes == {0, 65, 97}

Min(a, b) == IF a <= b THEN a ELSE b

\* the uncompressed names of exactly n bytes
RECURSIVE NamesOfLen(_)
NamesOfLen(n) ==
    IF n = 1 THEN {<<0>>}
    ELSE UNION { { <<l>> \o [i \in 1 .. l |-> text[i]] \o rest :
                     text \in [1 .. l -> TrieBytes], rest \in NamesOfLen(n - 1 - l) }
                 : l \in 1 .. Min(n - 2, MAX_LLEN) }

ShortNames == UNION { NamesOfLen(n) : n \in 1 .. MaxNlen }
\* the first and the last byte of every range of gen_byte_to_bits
EdgeBytes == {0, 44, 45, 57, 58, 64, 65, 90, 91, 94, 95, 96, 97, 122, 123,
              168, 169, 214, 215, 255}
\* every byte against its neighbours and against every edge
BytePairs ==
    { p \in (0 .. 255) \X (0 .. 255) :
        p[1] \in EdgeBytes \/ p[2] \in EdgeBytes \/ p[1] - p[2] \in {-1, 0, 1} }
ByteName(b) == <<1, b, 0>>
\* "a.example.", "b.example." and "example." on the wire
Examples ==
    << <<1, 97, 7, 101, 120, 97, 109, 112, 108, 101, 0>>,
       <<1, 98, 7, 101, 120, 97, 109, 112, 108, 101, 0>>,
       <<7, 101, 120, 97, 109, 112, 108, 101, 0>> >>
\* the name of `labs` labels of llen bytes and one of `last` bytes, every
\* byte of them b, on the wire
LongName(labs, llen, last, b) ==
    [i \in 1 .. labs * (llen + 1) + last + 2 |->
        IF i = labs * (llen + 1) + last + 2 THEN 0
        ELSE IF i <= labs * (llen + 1)
        THEN (IF (i - 1) % (llen + 1) = 0 THEN llen ELSE b)
        ELSE IF i = labs * (llen + 1) + 1 THEN last ELSE b]
\* names of MAX_NAME bytes: of the fewest labels, of a byte of two codes and
\* of a byte of one, and of MAX_LABS labels
LongNames ==
    { LongName(3, MAX_LLEN, MAX_LLEN - 2, 0),
      LongName(3, MAX_LLEN, MAX_LLEN - 2, 97),
      LongName(MAX_LABS - 2, 1, 1, 0) }
TriePairs ==
    (ShortNames \X ShortNames)
        \cup (LongNames \X LongNames)
        \cup { <<ByteName(p[1]), ByteName(p[2])>> : p \in BytePairs }
        \cup { <<Examples[i], Examples[j]>> : i, j \in 1 .. 3 }

TrieInit ==
    /\ \E p \in TriePairs : vecs_one = p[1] /\ vecs_two = p[2]
    /\ name1 = <<>> /\ name2 = <<>>
    /\ triename1 = <<>> /\ triename2 = <<>>
    /\ scratch_ord = <<>> /\ slice_ord = <<>>
    /\ heap1 = <<>> /\ heap2 = <<>>
    /\ tpc = "start"
    /\ BmpIdle
    /\ WireIdle
    /\ PadIdle
    /\ TwigIdle

\* T::from_wire(wire, 0) for the two kinds of name from_dns_name is given
NameFromWire(T, wire) ==
    IF T = "ScratchName" THEN ScratchName_from_wire(ScratchName_new, wire, 0)
    ELSE WireLabels_from_wire(WireLabels_new(U8_MAX), wire, 0)

ParseNames(T) ==
    /\ tpc = "start"
    /\ \E r1 \in {NameFromWire(T, vecs_one)}, r2 \in {NameFromWire(T, vecs_two)} :
           /\ name1' = r1.this
           /\ name2' = r2.this
           /\ tpc' = IF r1.ret.ok /\ r2.ret.ok THEN "parsed" ELSE "returned"
    /\ UNCHANGED <<vecs_one, vecs_two, triename1, triename2, scratch_ord, slice_ord,
                   heap1, heap2>>
    /\ UNCHANGED notTrieVars

FromDnsName ==
    /\ tpc = "parsed"
    /\ scratch_ord' = cmp_any_names(name1, name2)
    /\ triename1' = from_dns_name(name1)
    /\ triename2' = from_dns_name(name2)
    /\ slice_ord' = slice_cmp(triename1'.key, triename2'.key)
    /\ tpc' = "keyed"
    /\ UNCHANGED <<vecs_one, vecs_two, name1, name2, heap1, heap2>>
    /\ UNCHANGED notTrieVars

MakeDnsName ==
    /\ tpc = "keyed"
    /\ heap1' = make_dns_name(triename1.key)
    /\ heap2' = make_dns_name(triename2.key)
    /\ tpc' = "made"
    /\ UNCHANGED <<vecs_one, vecs_two, name1, name2, triename1, triename2,
                   scratch_ord, slice_ord>>
    /\ UNCHANGED notTrieVars

TrieNext ==
    \/ \E T \in {"ScratchName", "WireLabels"} : ParseNames(T)
    \/ FromDnsName
    \/ MakeDnsName

TrieSpec == TrieInit /\ [][TrieNext]_vars

-----------------------------------------------------------------------------
(* exercise_wire (test/dnsname.rs): the parsers on arbitrary bytes           *)

MaxWire == 4

Repeat(s, k) == [i \in 1 .. k * Len(s) |-> s[((i - 1) % Len(s)) + 1]]

\* buffers that chain pointers or reach the limits of a name, the texts
\* "dotat.at" and "dotat.at." and the wire form of that name, and where to
\* start in them
LongBufs ==
    { <<<<0, 1, 65, 192, 0, 192, 1>>, 5>>,
      <<<<0, 1, 65, 192, 0, 1, 65, 192, 1>>, 5>>,
      <<<<1, 65, 192, 0, 192, 0>>, 4>>,
      <<Repeat(<<1, 65>>, MAX_LABS - 1) \o <<0>>, 0>>,
      <<Repeat(<<1, 65>>, MAX_LABS) \o <<0>>, 0>>,
      <<Repeat(<<MAX_LLEN>> \o Repeat(<<65>>, MAX_LLEN), 4) \o <<0>>, 0>>,
      <<Repeat(<<MAX_LLEN>> \o Repeat(<<65>>, MAX_LLEN), 3)
            \o <<MAX_LLEN - 2>> \o Repeat(<<65>>, MAX_LLEN - 2) \o <<0>>, 0>>,
      <<Repeat(<<65>>, MAX_LLEN + 1), 0>>,
      <<Repeat(<<65, 46>>, MAX_LABS - 1), 0>>,
      <<Repeat(<<65, 46>>, MAX_LABS), 0>>,
      <<<<100, 111, 116, 97, 116, 46, 97, 116>>, 0>>,
      <<<<100, 111, 116, 97, 116, 46, 97, 116, 46>>, 0>>,
      <<<<5, 100, 111, 116, 97, 116, 2, 97, 116, 0>>, 0>> }

\* bytes of a label that text writes plainly ('-', '0', '9', 'a'), with a
\* backslash (' ' excepted: '!', '"', '(', '.', ';', '\', '~') or as a decimal
\* escape (0, ' ', 127, 255)
LabelBytes == {0, 32, 33, 34, 40, 45, 46, 48, 57, 59, 92, 97, 126, 127, 255}

\* Every buffer of at most MaxWire bytes that are label lengths, a letter
\* that is also a reserved label type, or a pointer (0, 1, 2, 'A', 0xC0), or
\* that are text (' ', '.', '0', '9', 'A', '\'), from every start position
\* in it; the longer buffers; and the names of one label of one or two of
\* LabelBytes and of two labels of one
WireInputs ==
    { p \in (UNION { [1 .. n -> {0, 1, 2, 65, 192}] \cup [1 .. n -> {32, 46, 48, 57, 65, 92}] :
                         n \in 0 .. MaxWire }) \X (0 .. MaxWire) :
          p[2] <= Len(p[1]) }
        \cup LongBufs
        \cup { <<<<Len(l)>> \o l \o <<0>>, 0>> :
                   l \in [1 .. 1 -> LabelBytes] \cup [1 .. 2 -> LabelBytes] }
        \cup { <<<<1, l[1], 1, l[2], 0>>, 0>> : l \in [1 .. 2 -> LabelBytes] }

WireInit ==
    /\ \E p \in WireInputs : wire_bytes = p[1] /\ wire_start = p[2]
    /\ wire_labels = <<>> /\ scratch1 = <<>>
    /\ wire_heap1 = <<>> /\ wire_heap2 = <<>>
    /\ text2 = <<>> /\ scratch2 = <<>> /\ heap3 = <<>>
    /\ wpc = "start"
    /\ BmpIdle
    /\ TrieIdle
    /\ PadIdle
    /\ TwigIdle

WireLabelsFromWire ==
    /\ wpc = "start"
    /\ wire_labels' = WireLabels_from_wire(WireLabels_new(U16_MAX), wire_bytes, wire_start)
    /\ wpc' = "labels"
    /\ UNCHANGED <<text2, scratch2, heap3, wire_bytes, wire_start, scratch1, wire_heap1, wire_heap2>>
    /\ UNCHANGED notWireVars

ScratchFromWire ==
    /\ wpc = "labels"
    /\ scratch1' = ScratchName_from_wire(ScratchName_new, wire_bytes, wire_start)
    /\ wpc' = "scratch"
    /\ UNCHANGED <<text2, scratch2, heap3, wire_bytes, wire_start, wire_labels, wire_heap1, wire_heap2>>
    /\ UNCHANGED notWireVars

Promote ==
    /\ wpc = "scratch"
    /\ wire_labels.ret.ok
    /\ scratch1.ret.ok
    /\ wire_heap1' = HeapName_from_WireLabels(wire_labels.this)
    /\ wire_heap2' = HeapName_from_ScratchName(scratch1.this)
    /\ wpc' = "heaps"
    /\ UNCHANGED <<text2, scratch2, heap3, wire_bytes, wire_start, wire_labels, scratch1>>
    /\ UNCHANGED notWireVars

\* HeapName::from of the names as a parse that failed left them, which is
\* cleared, as new() makes them
PromoteCleared ==
    /\ wpc = "scratch"
    /\ ~wire_labels.ret.ok
    /\ ~scratch1.ret.ok
    /\ wire_heap1' = HeapName_from_WireLabels(wire_labels.this)
    /\ wire_heap2' = HeapName_from_ScratchName(scratch1.this)
    /\ wpc' = "heaps_cleared"
    /\ UNCHANGED <<text2, scratch2, heap3, wire_bytes, wire_start, wire_labels, scratch1>>
    /\ UNCHANGED notWireVars

\* scratch.from_wire(wire, pos) once more, on the ScratchName that holds the
\* name the first call parsed
ScratchFromWireAgain ==
    /\ wpc = "scratch"
    /\ scratch1.ret.ok
    /\ scratch2' = ScratchName_from_wire(scratch1.this, wire_bytes, wire_start)
    /\ wpc' = "wire_again"
    /\ UNCHANGED <<text2, heap3, wire_bytes, wire_start, wire_labels, scratch1, wire_heap1, wire_heap2>>
    /\ UNCHANGED notWireVars

\* scratch.from_text(text) once more, on the ScratchName that holds the name
\* the first call parsed
ScratchFromTextAgain ==
    /\ wpc = "text"
    /\ scratch1.ret.ok
    /\ scratch2' = ScratchName_from_text(scratch1.this, wire_bytes)
    /\ wpc' = "text_again"
    /\ UNCHANGED <<text2, heap3, wire_bytes, wire_start, wire_labels, scratch1, wire_heap1, wire_heap2>>
    /\ UNCHANGED notWireVars

\* name_from_text on new WireLabels, of the text from its start, and what
\* ScratchName::from_text makes of the same text
NameFromText ==
    /\ wpc = "start"
    /\ wire_start = 0
    /\ wire_labels' = name_from_text(WireLabels_new(U16_MAX), wire_bytes, 0)
    /\ scratch1' = ScratchName_from_text(ScratchName_new, wire_bytes)
    /\ wpc' = "name_text"
    /\ UNCHANGED <<text2, scratch2, heap3, wire_bytes, wire_start, wire_heap1, wire_heap2>>
    /\ UNCHANGED notWireVars

\* exercise_text: scratch.from_text(text)
ScratchFromText ==
    /\ wpc = "start"
    /\ wire_start = 0
    /\ scratch1' = ScratchName_from_text(ScratchName_new, wire_bytes)
    /\ wpc' = "text"
    /\ UNCHANGED <<text2, scratch2, heap3, wire_bytes, wire_start, wire_labels, wire_heap1, wire_heap2>>
    /\ UNCHANGED notWireVars

\* exercise_text: HeapName::try_from(&utf8[0..len]) of the text that parsed
\* (the texts are ASCII, so from_utf8 accepts them); and, as the test of
\* heap.rs, HeapName::try_from of the whole text and format!("{}", name)
HeapFromText ==
    /\ wpc = "text"
    /\ scratch1.ret.ok
    /\ wire_heap1' = HeapName_try_from_str(SubSeq(wire_bytes, 1, scratch1.ret.val))
    /\ \E h \in {HeapName_try_from_str(wire_bytes)} :
          /\ wire_heap2' = h
          /\ text2' = IF h.ok THEN to_text(h.val) ELSE h
    /\ wpc' = "heap_text"
    /\ UNCHANGED <<scratch2, heap3, wire_bytes, wire_start, wire_labels, scratch1>>
    /\ UNCHANGED notWireVars

\* exercise_wire: text2 = format!("{}", scratch1), which is to_text;
\* scratch2.from_text(text); heap3 = HeapName::try_from(text2) and
\* text3 = format!("{}", heap3)
FormatAndParse ==
    /\ wpc = "heaps"
    /\ \E t \in {to_text(scratch1.this)} :
          IF ~t.ok THEN text2' = t /\ scratch2' = <<>> /\ heap3' = <<>>
          ELSE \E h \in {HeapName_try_from_str(t.val)} :
                  /\ text2' = t
                  /\ scratch2' = ScratchName_from_text(ScratchName_new, t.val)
                  /\ heap3' = [name |-> h,
                               text |-> IF h.ok THEN to_text(h.val) ELSE h]
    /\ wpc' = "texts"
    /\ UNCHANGED <<wire_bytes, wire_start, wire_labels, scratch1, wire_heap1, wire_heap2>>
    /\ UNCHANGED notWireVars

WireNext ==
    \/ WireLabelsFromWire
    \/ ScratchFromWire
    \/ Promote
    \/ PromoteCleared
    \/ ScratchFromWireAgain
    \/ ScratchFromTextAgain
    \/ NameFromText
    \/ ScratchFromText
    \/ HeapFromText
    \/ FormatAndParse

WireSpec == WireInit /\ [][WireNext]_vars

-----------------------------------------------------------------------------
(* A ScratchPad<u8, PadSize> that is pushed to, appended to and cleared     *)

PadSize == 2
PadBytes == {0, 1}
\* the slices to append: of no element, and of up to one more than fit
PadSlices == UNION { [1 .. n -> PadBytes] : n \in 0 .. PadSize + 1 }

PadInit ==
    /\ pad = <<>>
    /\ pad_ret = Ok(0)
    /\ pad_op = [op |-> "new", elems |-> <<>>, before |-> <<>>]
    /\ BmpIdle
    /\ TrieIdle
    /\ WireIdle
    /\ TwigIdle

\* a panic ends the program
PadRunning == "panic" \notin DOMAIN pad_ret

PadPush(elem) ==
    /\ PadRunning
    /\ \E r \in {ScratchPad_push(pad, PadSize, elem)} :
          /\ pad' = IF r.ok THEN r.val ELSE pad
          /\ pad_ret' = IF r.ok THEN Ok(0) ELSE r
    /\ pad_op' = [op |-> "push", elems |-> <<elem>>, before |-> pad]
    /\ UNCHANGED notPadVars

PadAppend(elems, overflow_checks) ==
    /\ PadRunning
    /\ \E r \in {ScratchPad_append(pad, PadSize, elems, overflow_checks)} :
          /\ pad' = r.pad
          /\ pad_ret' = r.ret
    /\ pad_op' = [op |-> "append", elems |-> elems, before |-> pad]
    /\ UNCHANGED notPadVars

PadClear ==
    /\ PadRunning
    /\ pad' = ScratchPad_clear(pad)
    /\ pad_ret' = Ok(0)
    /\ pad_op' = [op |-> "clear", elems |-> <<>>, before |-> pad]
    /\ UNCHANGED notPadVars

PadNext ==
    \/ \E elem \in PadBytes : PadPush(elem)
    \/ \E elems \in PadSlices, overflow_checks \in BOOLEAN :
          PadAppend(elems, overflow_checks)
    \/ PadClear

PadSpec == PadInit /\ [][PadNext]_vars

-----------------------------------------------------------------------------
(* The twigs of qptrie.rs.  A CookedTwig is [tag |-> "Branch", offset,      *)
(* twigs] with twigs a BmpVec [bmp, ptr], or [tag |-> "Leaf", key, val]     *)
(* with key the address of the HeapName's allocation.  A RawTwig is         *)
(* [int, ptr], int the set of the bits that are 1 in the u64.               *)

BRANCH_TAG == {SHIFT_BRANCH}
MASK_BMP == (0 .. SHIFT_OFFSET - 1) \ BRANCH_TAG

\* the bits of a number below 2^31, as a u64
U64Bits(n) == {i \in 0 .. 30 : (n \div 2^i) % 2 = 1}

\* the number that a u64 with bits below 31 is
RECURSIVE U64Value(_)
U64Value(bits) ==
    IF bits = {} THEN 0
    ELSE LET b == CHOOSE b \in bits : TRUE
         IN  2^b + U64Value(bits \ {b})

\* u64 << n and u64 >> n
Shl(bits, n) == {b + n : b \in bits} \cap (0 .. 63)
Shr(bits, n) == {b - n : b \in bits} \cap (0 .. 63)

\* RawTwig::from(CookedTwig)
RawTwig_from(cooked) ==
    IF cooked.tag = "Branch"
    THEN [int |-> BRANCH_TAG \cup cooked.twigs.bmp
                      \cup Shl(U64Bits(cooked.offset), SHIFT_OFFSET),
          ptr |-> cooked.twigs.ptr]
    ELSE [int |-> U64Bits(cooked.key), ptr |-> cooked.val]

\* CookedTwig::from(RawTwig)
CookedTwig_from(raw) ==
    IF raw.int \cap BRANCH_TAG = {}
    THEN [tag |-> "Leaf", key |-> U64Value(raw.int), val |-> raw.ptr]
    ELSE [tag |-> "Branch", offset |-> U64Value(Shr(raw.int, SHIFT_OFFSET)),
          twigs |-> [bmp |-> raw.int \cap MASK_BMP, ptr |-> raw.ptr]]

\* positions of a bitmap: the lowest, the trie's lowest and highest, those
\* from which the offset is kept, and the highest
TwigPositions == {0, SHIFT_NOBYTE, SHIFT_BITMAP, SHIFT_OFFSET - 1, SHIFT_OFFSET, 63}
TwigOffsets == {0, 1, U16_MAX, U16_MAX + 1}
\* addresses of an allocation of bytes, whose alignment is 1
TwigAddresses == {4096, 4097, 4104}

\* a Vec of n twigs, which the model tells apart by their place only
TwigVec(n) == [i \in 1 .. n |-> i]

TwigInputs ==
    { [tag |-> "Branch", offset |-> off,
       twigs |-> [bmp |-> b, ptr |-> TwigVec(Cardinality(b))]] :
          off \in TwigOffsets, b \in SUBSET TwigPositions }
        \cup { [tag |-> "Leaf", key |-> k, val |-> v] :
                   k \in TwigAddresses, v \in {8192} }

TwigInit ==
    /\ twig \in TwigInputs
    /\ twig_raw = <<>>
    /\ twig_back = <<>>
    /\ BmpIdle
    /\ TrieIdle
    /\ WireIdle
    /\ PadIdle

IntoRaw ==
    /\ twig_raw = <<>>
    /\ twig_raw' = RawTwig_from(twig)
    /\ UNCHANGED <<twig, twig_back>>
    /\ UNCHANGED notTwigVars

IntoCooked ==
    /\ twig_raw # <<>>
    /\ twig_back = <<>>
    /\ twig_back' = CookedTwig_from(twig_raw)
    /\ UNCHANGED <<twig, twig_raw>>
    /\ UNCHANGED notTwigVars

TwigNext ==
    \/ IntoRaw
    \/ IntoCooked

TwigSpec == TwigInit /\ [][TwigNext]_vars

-----------------------------------------------------------------------------
(* Claims about BmpVec, checked under BmpSpec                               *)

\* C1: after every action of exercise_actions (Contains, Insert, Remove, Get,
\* GetMut, Len, IsEmpty, Keys, Values with positions in 0..=63) the BmpVec
\* returned what the BlimpVec oracle returned, and neither panicked nor read
\* outside its allocation.
C1_OracleAgrees == fault = "none" /\ bmp_ret = blimp_ret

\* C1 witness: Values was compared on a vector holding positions 0 and 63 and
\* at least three elements.
C1_Witness ==
    /\ act = "Values"
    /\ Len(bmp_ret) >= 3
    /\ {0, 63} \subseteq bmp

\* C2: the storage length and the storage capacity both equal
\* popcount(bitmap), and an empty BmpVec has bitmap 0 and no storage.
C2_StorageInvariant ==
    /\ Len(ptr.elems) = Bmp_len(bmp)
    /\ ptr.cap = Bmp_len(bmp)
    /\ BmpVec_is_empty(SelfBmp) => (bmp = {} /\ Len(ptr.elems) = 0 /\ ptr.cap = 0)

\* C2 witness: an Insert made a vector of three elements and a Remove then
\* took one out.
C2_Witness ==
    /\ act = "Remove"
    /\ bmp_ret # None
    /\ Bmp_len(bmp) = 2
    /\ 63 \in bmp

-----------------------------------------------------------------------------
(* Claims about trie keys, checked under TrieSpec                           *)

\* C3: for two valid names the byte-wise lexicographic order of their trie
\* keys is the Ordering the canonical name comparison gives (labels from the
\* root, ASCII case folded, the shorter label or name first).
C3_KeyOrderIsNameOrder ==
    tpc \in {"keyed", "made"} =>
        /\ ~triename1.panic /\ ~triename2.panic
        /\ slice_ord = scratch_ord

\* two names that differ only in case, held with their case: Equal both ways
C3_Witness ==
    /\ tpc = "keyed"
    /\ IsWireLabels(name1)
    /\ vecs_one # vecs_two
    /\ Len(vecs_one) = MaxNlen
    /\ scratch_ord = "Equal"
    /\ slice_ord = "Equal"

\* the bytes of an uncompressed name, lower-cased
Lowered(wire) == [i \in 1 .. Len(wire) |-> to_ascii_lowercase(wire[i])]

\* the offsets of the labels of an uncompressed name, from offset pos
RECURSIVE LabelOffsets(_, _)
LabelOffsets(wire, pos) ==
    IF wire[pos + 1] = 0 THEN <<pos>>
    ELSE <<pos>> \o LabelOffsets(wire, pos + 1 + wire[pos + 1])

\* `made` is a HeapName of the name `wire`, lower-cased, and equal to `name`
MadeFrom(made, wire, name) ==
    /\ made.ret.ok
    /\ ~made.panic
    /\ HeapName_name(made.ret.val) = Lowered(wire)
    /\ HeapName_lpos(made.ret.val) = LabelOffsets(wire, 0)
    /\ HeapName_labs(made.ret.val) = Len(LabelOffsets(wire, 0))
    /\ Len(made.ret.val.mem) = 1 + HeapName_labs(made.ret.val) + Len(wire)
    /\ cmp_any_names(made.ret.val, name) = "Equal"

\* C4: for every valid name N, the root and labels of any byte included,
\* make_dns_name of the key from_dns_name(N) made succeeds and returns a
\* HeapName of N with upper case folded to lower case, the same labels in
\* the same order.
C4_KeyRoundTrip ==
    tpc = "made" =>
        /\ MadeFrom(heap1, vecs_one, name1)
        /\ MadeFrom(heap2, vecs_two, name2)

\* an upper case letter, a byte with a two-byte code, and the root
C4_Witness ==
    /\ tpc = "made"
    /\ IsWireLabels(name1)
    /\ vecs_one = <<2, 65, 0, 0>>
    /\ vecs_two = <<0>>
    /\ heap1.ret.ok
    /\ HeapName_name(heap1.ret.val) = <<2, 97, 0, 0>>
    /\ HeapName_name(heap2.ret.val) = <<0>>


-----------------------------------------------------------------------------
(* Claims about the parsers, checked under WireSpec                         *)

\* a parse of the wire as a WireLabels, as a ScratchName, has returned
WireLabelsParsed == wpc \in {"labels", "scratch", "heaps"}
ScratchParsed == wpc \in {"scratch", "heaps"}

\* C5: whenever WireLabels<u16>::from_wire succeeds on a buffer and start
\* position, ScratchName::from_wire succeeds on them too, and the WireLabels,
\* the ScratchName and the HeapName promoted from each are equal under ==
\* and Equal under the name comparison in every pairing; the two HeapNames
\* hold the same bytes.
C5_RepresentationsAgree ==
    /\ (ScratchParsed /\ wire_labels.ret.ok) =>
           /\ scratch1.ret.ok
           /\ WireLabels_eq(wire_labels.this, scratch1.this)
           /\ cmp_any_names(wire_labels.this, scratch1.this) = "Equal"
           /\ cmp_any_names(scratch1.this, wire_labels.this) = "Equal"
    /\ wpc = "heaps" =>
           LET n == <<wire_labels.this, scratch1.this,
                      [mem |-> wire_heap1.mem], wire_heap2>>
           IN  /\ ~wire_heap1.panic
               /\ wire_heap1.mem = wire_heap2.mem
               /\ \A i, j \in 1 .. 4 : cmp_any_names(n[i], n[j]) = "Equal"
               /\ \A j \in 2 .. 4 : WireLabels_eq(n[1], n[j])
               /\ \A i, j \in 2 .. 4 : ScratchName_eq(n[i], n[j])

\* C5 witness: a name in capitals reached through two compression pointers
\* was parsed both ways and promoted, lower-cased, to the heap.
C5_Witness ==
    /\ wpc = "heaps"
    /\ wire_labels.trace.followed = <<1, 0>>
    /\ WireLabels_label(wire_labels.this, 0) = Some(<<65>>)
    /\ wire_heap1.mem = <<2, 0, 2, 1, 97, 0>>

\* C6: whenever from_wire or from_text returned an error, of any kind and
\* however many labels it had emitted, the target name is empty: no labels
\* and no name bytes.
C6_ErrorLeavesEmpty ==
    /\ (WireLabelsParsed /\ ~wire_labels.ret.ok) =>
           /\ DnsLabels_labs(wire_labels.this) = 0
           /\ wire_labels.this.nlen = 0
    /\ (wpc \in {"scratch", "heaps", "text"} /\ ~scratch1.ret.ok) =>
           /\ ScratchName_labs(scratch1.this) = 0
           /\ ScratchName_nlen(scratch1.this) = 0

\* C6 witness: ScratchName::from_wire hit a reserved label type after it had
\* emitted a label.
C6_Witness ==
    /\ wpc = "scratch"
    /\ scratch1.ret = Err(<<"LabelType", 65>>)
    /\ scratch1.trace.emitted = 1

\* a well-formed name: 1..=128 labels in at most 255 bytes, each label at
\* most 63 bytes, the last label the only empty one, the label positions
\* starting at 0 and each label directly after the one before
ValidName(n) ==
    LET labs == Len(n.lpos)
    IN  /\ 1 <= labs /\ labs <= MAX_LABS
        /\ Len(n.name) <= MAX_NAME
        /\ n.lpos[1] = 0
        /\ \A i \in 1 .. labs :
               /\ n.lpos[i] < Len(n.name)
               /\ n.name[n.lpos[i] + 1] <= MAX_LLEN
               /\ (n.name[n.lpos[i] + 1] = 0) <=> (i = labs)
               /\ n.lpos[i] + 1 + n.name[n.lpos[i] + 1]
                      = IF i < labs THEN n.lpos[i + 1] ELSE Len(n.name)

\* C7: ScratchName::from_wire on an empty ScratchName, for any bytes and any
\* start position, takes no byte from outside the slice and returns; when it
\* succeeds the name is well-formed.
C7_ParseIsSafe ==
    ScratchParsed =>
        /\ ~scratch1.trace.oob
        /\ scratch1.ret # Err(<<"Diverged">>)
        /\ scratch1.ret.ok => ValidName(scratch1.this)

\* C7 witness: a name of 128 labels and 255 bytes was parsed.
C7_Witness ==
    /\ wpc = "scratch"
    /\ scratch1.ret.ok
    /\ ScratchName_labs(scratch1.this) = MAX_LABS
    /\ ScratchName_nlen(scratch1.this) = MAX_NAME

\* every target is below the start position and below the target before it
Descending(targets, start) ==
    \A i \in 1 .. Len(targets) :
        targets[i] < (IF i = 1 THEN start ELSE targets[i - 1])

\* the pointers of a parse r: those it went on from descend from the start
\* position, and a parse that decoded any other pointer failed
PointersDescend(r) ==
    /\ Descending(r.trace.followed, wire_start)
    /\ ~Descending(r.trace.seen, wire_start) => ~r.ret.ok

\* C8: a compression pointer is followed only if its target is below the
\* start position of the name and below the target of every pointer followed
\* before it in the parse; a parse that meets a pointer to that minimum or
\* above it fails.
C8_PointersGoBackwards ==
    /\ WireLabelsParsed => PointersDescend(wire_labels)
    /\ ScratchParsed => PointersDescend(scratch1)

\* C8 witness: a parse followed a pointer back to offset 0, emitted a label
\* and failed on a second pointer to offset 0.
C8_Witness ==
    /\ wpc = "scratch"
    /\ wire_start = 4
    /\ scratch1.trace.followed = <<0>>
    /\ scratch1.trace.seen = <<0, 0>>
    /\ scratch1.ret = Err(<<"CompressBad">>)

\* a parse r returned within its iterations, having followed no more
\* pointers than the start position and emitted no more labels than a name
\* can have
ParseBounded(r) ==
    /\ r.ret # Err(<<"Diverged">>)
    /\ Len(r.trace.followed) <= wire_start
    /\ r.trace.emitted <= MAX_LABS

\* C9: from_wire returns on every buffer and start position, cycles of
\* pointers included, after following at most as many pointers as the start
\* position and emitting at most 128 labels.
C9_ParseTerminates ==
    /\ WireLabelsParsed => ParseBounded(wire_labels)
    /\ ScratchParsed => ParseBounded(scratch1)

\* C9 witness: WireLabels::from_wire returned from a buffer whose pointer
\* leads back to a label in front of that same pointer.
C9_Witness ==
    /\ wpc = "labels"
    /\ wire_bytes = <<1, 65, 192, 0>>
    /\ wire_start = 2
    /\ wire_labels.trace.emitted = 1
    /\ ~wire_labels.ret.ok

\* the wire begins with the pointer 0xC0 0x00 and was parsed from position 0
SelfPointer ==
    /\ Len(wire_bytes) >= 2
    /\ wire_bytes[1] = 192 /\ wire_bytes[2] = 0
    /\ wire_start = 0

\* C10 as stated: a wire that begins 0xC0, 0x00, parsed from position 0,
\* fails with CompressBad.
C10_SelfPointerIsBad ==
    /\ (SelfPointer /\ WireLabelsParsed) =>
           wire_labels.ret = Err(<<"CompressBad">>)
    /\ (SelfPointer /\ ScratchParsed) => scratch1.ret = Err(<<"CompressBad">>)

\* C10: a wire that begins 0xC0, 0x00, parsed from position 0 by
\* WireLabels::from_wire or ScratchName::from_wire, fails with CompressChain:
\* the pointer leads to itself, and the target of a pointer is looked at
\* for a pointer before it is compared with the start position.
C10_SelfPointerIsChain ==
    /\ (SelfPointer /\ WireLabelsParsed) =>
           wire_labels.ret = Err(<<"CompressChain">>)
    /\ (SelfPointer /\ ScratchParsed) => scratch1.ret = Err(<<"CompressChain">>)

\* C10 witness: both parsers have returned from 0xC0 0x00 followed by a
\* label.
C10_Witness ==
    /\ wpc = "scratch"
    /\ wire_bytes = <<192, 0, 1, 65>>
    /\ wire_start = 0
    /\ wire_labels.ret = Err(<<"CompressChain">>)
    /\ wire_labels.trace.seen = <<0>>

-----------------------------------------------------------------------------
(* Claims about what the parsers return and refuse, checked under WireSpec  *)

\* the position of the next byte after the name encoded at wire_start: one
\* past the root label when the parse r followed no pointer (the name is
\* then contiguous), one past the second byte of its first pointer otherwise
NextByteAfter(r) ==
    IF r.trace.followed = <<>>
    THEN wire_start + (IF IsWireLabels(r.this) THEN r.this.nlen
                       ELSE ScratchName_nlen(r.this))
    ELSE r.trace.ptrs[1] + 2

\* C11: when from_wire succeeds, the index it returns is the position of the
\* next byte after the name as encoded at the start position: one past the
\* root label if no pointer was followed, one past the second byte of the
\* first pointer otherwise, however far the labels reached through pointers
\* extend
C11_ReturnsNextByte ==
    /\ (WireLabelsParsed /\ wire_labels.ret.ok)
           => wire_labels.ret.val = NextByteAfter(wire_labels)
    /\ (ScratchParsed /\ scratch1.ret.ok)
           => scratch1.ret.val = NextByteAfter(scratch1)

\* a successful parse that followed a pointer
C11_Witness ==
    /\ ScratchParsed /\ scratch1.ret.ok
    /\ scratch1.trace.followed # <<>>
    /\ scratch1.ret.val = NextByteAfter(scratch1)

\* the buffer is a name of UniformLabels labels of the length of its first,
\* each of them letters, and the root label
UniformLabels == (Len(wire_bytes) - 1) \div (wire_bytes[1] + 1)
UniformName ==
    /\ wire_start = 0
    /\ Len(wire_bytes) > 1
    /\ wire_bytes[1] \in 1 .. MAX_LLEN
    /\ wire_bytes = Repeat(<<wire_bytes[1]>> \o Repeat(<<65>>, wire_bytes[1]),
                           UniformLabels) \o <<0>>

\* what the claim says of a parse of a name of nlen bytes (and so of at most
\* (nlen + 1) \div 2 labels): accepted up to 255 bytes; refused with
\* NameLength beyond, or with NameLabels if it also has more than 128 labels
Budgeted(ret, nlen, labs) ==
    IF nlen <= 255 /\ labs <= 128 THEN ret.ok
    ELSE /\ ~ret.ok
         /\ \/ ret.err = <<"NameLength">>
            \/ labs > 128 /\ ret.err = <<"NameLabels">>

\* C12: from_wire accepts a well-formed name of exactly 255 bytes and one of
\* exactly 128 labels; it rejects a name longer than 255 bytes with
\* NameLength and one of more than 128 labels with NameLabels
C12_BudgetErrors ==
    UniformName =>
        /\ WireLabelsParsed
              => Budgeted(wire_labels.ret, Len(wire_bytes), UniformLabels + 1)
        /\ ScratchParsed
              => Budgeted(scratch1.ret, Len(wire_bytes), UniformLabels + 1)

\* both parsers have accepted a name of 255 bytes in 128 labels
C12_Witness ==
    /\ UniformName /\ ScratchParsed
    /\ Len(wire_bytes) = MAX_NAME /\ UniformLabels + 1 = MAX_LABS
    /\ wire_labels.ret.ok /\ scratch1.ret.ok

\* The text starts with an escape: a backslash and at least one more byte
EscapeText == wpc = "text" /\ Len(wire_bytes) >= 2 /\ wire_bytes[1] = 92

\* exactly three decimal digits follow the backslash
ThreeDigits ==
    /\ Len(wire_bytes) >= 4
    /\ \A i \in 2 .. 4 : wire_bytes[i] \in 48 .. 57

\* the value the claim gives the escape, and the bytes of text it takes
EscapeValue ==
    IF ThreeDigits
    THEN 100 * (wire_bytes[2] - 48) + 10 * (wire_bytes[3] - 48) + (wire_bytes[4] - 48)
    ELSE wire_bytes[2]
EscapeLength == IF ThreeDigits THEN 4 ELSE 2

\* the result r of parsing the text is that of parsing it with a letter in
\* place of its escape (plain), but for the byte and the bytes taken
SameButEscape(r, plain) ==
    IF ~plain.ret.ok THEN r = plain
    ELSE /\ r.ret = Ok(plain.ret.val + EscapeLength - 1)
         /\ r.this.lpos = plain.this.lpos
         /\ r.this.name = [plain.this.name EXCEPT
                               ![2] = to_ascii_lowercase(EscapeValue)]

\* C13: in from_text a backslash followed by exactly three decimal digits
\* yields the one byte of that decimal value, or fails with EscapeBad when the
\* value is above 255; a backslash followed by anything else, one or two
\* digits and a non-digit included, yields the byte after the backslash
C13_EscapeIsThreeDigits ==
    EscapeText =>
        IF EscapeValue > 255
        THEN scratch1.ret = Err(<<"EscapeBad", EscapeValue>>)
        ELSE SameButEscape(scratch1,
                 ScratchName_from_text(ScratchName_new,
                     <<65>> \o SubSeq(wire_bytes, EscapeLength + 1, Len(wire_bytes))))

\* a three-digit escape of a value up to 255 has been parsed
C13_Witness ==
    /\ EscapeText /\ ThreeDigits /\ EscapeValue <= 255
    /\ scratch1.ret.ok
    /\ scratch1.this.name[2] = to_ascii_lowercase(EscapeValue)

-----------------------------------------------------------------------------
(* Claims about names as text, checked under WireSpec                       *)

\* newline, CR, tab, space, ';', '(' and ')'
Terminators == {10, 13, 9, 32, 59, 40, 41}

\* Byte i (from 1) of the text is not escaped: the backslashes just before it
\* are an even number, each of an odd place in that run taking the next
Unescaped(text, i) ==
    \E k \in 0 .. i - 1 :
        /\ k % 2 = 0
        /\ \A j \in i - k .. i - 1 : text[j] = 92
        /\ k = i - 1 \/ text[i - k - 1] # 92

\* the index (from 0) of the first unescaped terminator, or the length
FirstTerminator(text) ==
    LET at == { i \in 1 .. Len(text) :
                    text[i] \in Terminators /\ Unescaped(text, i) }
    IN  IF at = {} THEN Len(text)
        ELSE (CHOOSE i \in at : \A j \in at : i <= j) - 1

\* the text of the name: what comes before the first unescaped terminator
TextName == SubSeq(wire_bytes, 1, FirstTerminator(wire_bytes))

UnescapedDot(text, i) == text[i] = 46 /\ Unescaped(text, i)

\* the name has an empty label before another label or between two dots
EmptyLabel(text) ==
    \/ Len(text) > 1 /\ text[1] = 46
    \/ \E i \in 2 .. Len(text) :
           UnescapedDot(text, i) /\ UnescapedDot(text, i - 1)

\* labels, none empty, between single dots: without a dot after the last, and
\* without half an escape at the end
LabelsText(text) ==
    /\ text # <<>>
    /\ ~EmptyLabel(text)
    /\ FirstTerminator(text) = Len(text)
    /\ ~UnescapedDot(text, Len(text))
    /\ Unescaped(text, Len(text) + 1)

\* the text "." is the root name
DotIsRoot ==
    (wpc = "text" /\ wire_bytes = <<46>>)
        => /\ scratch1.ret = Ok(1)
           /\ ScratchName_labs(scratch1.this) = 1
           /\ ScratchName_nlen(scratch1.this) = 1

\* a dot after the last label changes nothing but the length of the text
TrailingDotIsOptional(r, dotted) ==
    /\ dotted.this = r.this
    /\ dotted.ret.ok = r.ret.ok
    /\ r.ret.ok => dotted.ret.val = r.ret.val + 1

TrailingDot ==
    (wpc = "text" /\ LabelsText(wire_bytes))
        => TrailingDotIsOptional(scratch1,
               ScratchName_from_text(ScratchName_new, wire_bytes \o <<46>>))

\* C14 as the spec states it: "." is the root name (labs = 1, nlen = 1);
\* labels between dots parse to the same name with or without a dot after
\* the last; every input with a leading empty label, two unescaped dots in a
\* row or no label at all fails with NameSyntax
C14_EmptyLabelIsNameSyntax ==
    /\ DotIsRoot
    /\ TrailingDot
    /\ (wpc = "text" /\ (EmptyLabel(TextName) \/ TextName = <<>>))
           => scratch1.ret = Err(<<"NameSyntax">>)

\* C14: "." is the root name (labs = 1, nlen = 1); labels between dots parse
\* to the same name with or without a dot after the last; every input with a
\* leading empty label, two unescaped dots in a row or no label at all fails:
\* with NameSyntax, unless the parser first meets half an escape at the end
\* of the input, an escape above 255 or a full scratch pad, which it reports
\* instead
C14_EmptyLabelFails ==
    /\ DotIsRoot
    /\ TrailingDot
    /\ (wpc = "text" /\ (EmptyLabel(TextName) \/ TextName = <<>>))
           => /\ ~scratch1.ret.ok
              /\ scratch1.ret.err[1] \in {"NameSyntax", "NameTruncated",
                                          "EscapeBad", "ScratchOverflow"}
              /\ (Len(TextName) <= MAX_LLEN /\ \A i \in DOMAIN TextName : TextName[i] # 92)
                     => scratch1.ret.err = <<"NameSyntax">>

\* a text with an empty label before another has been refused
C14_Witness ==
    /\ wpc = "text"
    /\ wire_bytes = <<46, 65>>
    /\ scratch1.ret = Err(<<"NameSyntax">>)

\* C15: when ScratchName::from_text succeeds it returns the index of the first
\* unescaped terminator, or the length of the text if there is none; parsing
\* the text before that index gives an equal name; HeapName::try_from(&str)
\* succeeds on that prefix, and on the whole text it returns NameTrailing
\* exactly when the index is less than the length
C15_StopsAtTerminator ==
    /\ (wpc \in {"text", "heap_text"} /\ scratch1.ret.ok)
           => /\ scratch1.ret.val = FirstTerminator(wire_bytes)
              /\ ScratchName_from_text(ScratchName_new, TextName).this = scratch1.this
    /\ wpc = "heap_text"
           => /\ wire_heap1.ok
              /\ HeapName_name(wire_heap1.val) = scratch1.this.name
              /\ HeapName_lpos(wire_heap1.val) = scratch1.this.lpos
              /\ (wire_heap2 = Err(<<"NameTrailing">>))
                     <=> (scratch1.ret.val < Len(wire_bytes))
              /\ wire_heap2.ok <=> (scratch1.ret.val = Len(wire_bytes))

\* a name has been taken from a text that goes on after a terminator
C15_Witness ==
    /\ wpc = "heap_text"
    /\ 0 < scratch1.ret.val /\ scratch1.ret.val < Len(wire_bytes)
    /\ wire_bytes[scratch1.ret.val + 1] \in Terminators
    /\ wire_heap1.ok
    /\ wire_heap2 = Err(<<"NameTrailing">>)

\* C16: for every valid canonical name, whatever the bytes of its labels,
\* from_text of the text that to_text writes succeeds, takes the whole text
\* and gives a name equal to it
C16_TextRoundTrip ==
    wpc = "texts"
        => /\ text2.ok
           /\ scratch2.ret = Ok(Len(text2.val))
           /\ scratch2.this = scratch1.this
           /\ heap3.name.ok
           /\ HeapName_name(heap3.name.val) = scratch1.this.name

\* a name with a dot and a backslash in its labels has gone through text
C16_Witness ==
    /\ wpc = "texts"
    /\ scratch1.this.name = <<1, 46, 1, 92, 0>>
    /\ text2 = Ok(<<92, 46, 46, 92, 92>>)
    /\ scratch2.this.name = <<1, 46, 1, 92, 0>>

\* The text t written for the name n is its labels other than the root, with
\* one dot between two of them and none after the last; "." for the root name
NoTrailingDot(n, t) ==
    /\ t.ok
    /\ IF DnsLabels_labs(n) = 1 THEN t.val = <<46>>
       ELSE /\ LabelsText(t.val)
            /\ Cardinality({ i \in 1 .. Len(t.val) : UnescapedDot(t.val, i) })
                   = DnsLabels_labs(n) - 2

\* C17: a name of two or more labels is displayed as its non-root labels
\* with single dots between them and no dot at the end ("dotat.at" and
\* "dotat.at." are both displayed as "dotat.at"); the root name as "."
C17_DisplayHasNoTrailingDot ==
    /\ wpc = "texts"
           => /\ NoTrailingDot(scratch1.this, text2)
              /\ heap3.text = text2
    /\ (wpc = "heap_text" /\ wire_heap2.ok)
           => NoTrailingDot(wire_heap2.val, text2)

\* "dotat.at." has been parsed and is displayed as "dotat.at"
C17_Witness ==
    /\ wpc = "heap_text"
    /\ wire_bytes = <<100, 111, 116, 97, 116, 46, 97, 116, 46>>
    /\ text2 = Ok(<<100, 111, 116, 97, 116, 46, 97, 116>>)

-----------------------------------------------------------------------------
(* Claims about trie keys and their table, checked under TrieSpec           *)

\* the keys of Examples[i] and of Examples[j] have been made and compared
Keyed(i, j) ==
    /\ tpc \in {"keyed", "made"}
    /\ vecs_one = Examples[i] /\ vecs_two = Examples[j]

\* C18 as the spec states it: the trie keys of the three names are in the
\* order encode("a.example.") < encode("b.example.") < encode("example.")
\* byte by byte
C18_ExampleIsLast ==
    /\ Keyed(1, 2) => slice_ord = "Less"
    /\ Keyed(2, 3) => slice_ord = "Less"

\* C18: the trie keys of the three names are in the order
\* encode("example.") < encode("a.example.") < encode("b.example.") byte by
\* byte
C18_ExampleIsFirst ==
    /\ Keyed(3, 1) => slice_ord = "Less"
    /\ Keyed(1, 2) => slice_ord = "Less"
    /\ Keyed(3, 2) => slice_ord = "Less"
    /\ Keyed(2, 3) => slice_ord = "Greater"

\* the keys of "example." and of "a.example." have been compared
C18_Witness ==
    /\ Keyed(3, 1)
    /\ slice_ord = "Less"
    /\ Len(triename1.key) + 2 = Len(triename2.key)

\* the pair of codes a is before the pair b, by the first code and then by
\* the second
PairLess(a, b) == a[1] < b[1] \/ (a[1] = b[1] /\ a[2] < b[2])

\* what the test byte_to_bits asserts of the table, and more: the order of
\* the codes of any two bytes, not only of a byte and the next
ByteToBitsOrdered ==
    /\ \A k \in 0 .. 25 : BYTE_TO_BITS_at(65 + k) = BYTE_TO_BITS_at(97 + k)
    /\ \A b \in 0 .. 255 :
           /\ BYTE_TO_BITS_at(b)[1] \in SHIFT_BITMAP .. SHIFT_OFFSET - 1
           /\ BYTE_TO_BITS_at(b)[2] \in {0} \cup (SHIFT_BITMAP .. SHIFT_OFFSET - 1)
    /\ \A i, j \in (0 .. 255) \ (65 .. 90) :
           i < j => PairLess(BYTE_TO_BITS_at(i), BYTE_TO_BITS_at(j))

\* C19: BYTE_TO_BITS, the table that the keys are made from, gives an upper
\* case letter the codes of its lower case letter; for every byte the first
\* code is in [2, 48) and the second is 0 or in [2, 48); and for all bytes
\* i < j that are both outside A-Z the codes of i are strictly before the
\* codes of j
C19_TableIsOrdered == tpc \in {"keyed", "made"} => ByteToBitsOrdered

\* the keys of "A." and of "a." have been made from the table, as WireLabels
\* keep the case of the wire, and are the same
C19_Witness ==
    /\ tpc = "keyed"
    /\ vecs_one = ByteName(65) /\ vecs_two = ByteName(97)
    /\ IsWireLabels(name1)
    /\ triename1.key = <<BYTE_TO_BITS_at(65)[1], SHIFT_NOBYTE, SHIFT_NOBYTE>>
    /\ triename2.key = triename1.key

\* The key ends with two SHIFT_NOBYTE, and has no two in a row before that
DoubleNobyteEndsOnly(key) ==
    /\ Len(key) >= 2
    /\ key[Len(key) - 1] = SHIFT_NOBYTE /\ key[Len(key)] = SHIFT_NOBYTE
    /\ \A i \in 1 .. Len(key) - 2 :
           ~(key[i] = SHIFT_NOBYTE /\ key[i + 1] = SHIFT_NOBYTE)

\* C20: for every valid name, the root name included, the key that
\* from_dns_name makes ends with two consecutive SHIFT_NOBYTE bytes, and two
\* consecutive SHIFT_NOBYTE bytes are nowhere else in it
C20_KeyEndsWithDoubleNobyte ==
    tpc \in {"keyed", "made"}
        => /\ ~triename1.panic /\ DoubleNobyteEndsOnly(triename1.key)
           /\ ~triename2.panic /\ DoubleNobyteEndsOnly(triename2.key)

\* keys have been made of a name of two labels and the root and of the root
C20_Witness ==
    /\ tpc = "keyed"
    /\ DnsLabels_labs(name1) = 3 /\ DnsLabels_labs(name2) = 1
    /\ DoubleNobyteEndsOnly(triename1.key)
    /\ triename2.key = <<SHIFT_NOBYTE>>

-----------------------------------------------------------------------------
(* Claims about letter case                                                 *)

\* a letter in the other case, every other byte as it is
SwapCase(b) ==
    IF b \in 65 .. 90 THEN b + 32 ELSE IF b \in 97 .. 122 THEN b - 32 ELSE b

\* an upper case letter in lower case, every other byte as it is
Folded(b) == IF b \in 65 .. 90 THEN b + 32 ELSE b

\* the indexes in the wire of the text of the labels that were parsed: not
\* the length bytes, and not the bytes of a pointer that was decoded
LabelTextAt ==
    { i \in 1 .. Len(wire_bytes) :
        /\ \E k \in 1 .. Len(wire_labels.this.lpos) :
              LET p == wire_labels.this.lpos[k]
              IN  p + 2 <= i /\ i <= p + 1 + wire_bytes[p + 1]
        /\ \A k \in 1 .. Len(wire_labels.trace.ptrs) :
              i \notin {wire_labels.trace.ptrs[k] + 1, wire_labels.trace.ptrs[k] + 2} }

\* the wire with the letters of its labels in another case: all of them
\* swapped, all in upper case, or every other byte swapped
Recased(how) ==
    LET at == LabelTextAt
    IN
    [i \in 1 .. Len(wire_bytes) |->
        IF i \notin at THEN wire_bytes[i]
        ELSE CASE how = "swap" -> SwapCase(wire_bytes[i])
               [] how = "upper" -> SwapCase(Folded(wire_bytes[i]))
               [] how = "other" -> IF i % 2 = 0 THEN SwapCase(wire_bytes[i])
                                   ELSE wire_bytes[i]]

\* the text with its letters in another case
RecasedText(how) ==
    [i \in 1 .. Len(wire_bytes) |->
        CASE how = "swap" -> SwapCase(wire_bytes[i])
          [] how = "upper" -> SwapCase(Folded(wire_bytes[i]))
          [] how = "other" -> IF i % 2 = 0 THEN SwapCase(wire_bytes[i])
                              ELSE wire_bytes[i]]

\* the name parsed from `wire` in both ways, the heap names and the trie
\* keys made of it are those of the wire that was given
SameAsWire(labels, scratch) ==
    /\ labels.ret = wire_labels.ret
    /\ labels.this.lpos = wire_labels.this.lpos
    /\ labels.this.nlen = wire_labels.this.nlen
    /\ WireLabels_eq(labels.this, wire_labels.this)
    /\ scratch.ret = scratch1.ret
    /\ scratch.this = scratch1.this
    /\ HeapName_from_WireLabels(labels.this) = wire_heap1
    /\ HeapName_from_ScratchName(scratch.this) = wire_heap2
    /\ from_dns_name(labels.this) = from_dns_name(wire_labels.this)
    /\ from_dns_name(scratch.this) = from_dns_name(scratch1.this)
    /\ from_dns_name(labels.this) = from_dns_name(scratch1.this)

\* the name parsed from `text`, and the heap name made of it, are those of
\* the text that was given
SameAsText(scratch, heap) ==
    /\ scratch.ret = scratch1.ret
    /\ scratch.this = scratch1.this
    /\ heap = wire_heap2
    /\ from_dns_name(scratch.this) = from_dns_name(scratch1.this)

\* the labels hold the bytes of the wire, only A-Z changed, to a-z
StoredFromWire ==
    \A k \in 1 .. Len(wire_labels.this.lpos) :
        LET p == wire_labels.this.lpos[k]
            q == scratch1.this.lpos[k]
        IN  /\ scratch1.this.name[q + 1] = wire_bytes[p + 1]
            /\ \A i \in 1 .. wire_bytes[p + 1] :
                  scratch1.this.name[q + 1 + i] = Folded(wire_bytes[p + 1 + i])

\* a text without escapes that is all of the name
PlainText ==
    /\ scratch1.ret = Ok(Len(wire_bytes))
    /\ \A i \in 1 .. Len(wire_bytes) : wire_bytes[i] # 92

\* the labels hold the bytes of a plain text, only A-Z changed, to a-z
StoredFromText ==
    \A i \in 1 .. Len(wire_bytes) :
        wire_bytes[i] # 46 => scratch1.this.name[i + 1] = Folded(wire_bytes[i])

\* C21: a wire or a text that differs from the one given only in the case of
\* the letters of its labels gives the same ScratchName, the same HeapNames
\* and the same trie keys; and the names hold the bytes given, only A-Z
\* changed, to a-z
C21_CaseIsFolded ==
    /\ wpc = "heaps" =>
           /\ StoredFromWire
           /\ wire_heap2.mem = <<Len(scratch1.this.lpos)>> \o scratch1.this.lpos
                                   \o scratch1.this.name
           /\ \A how \in {"swap", "upper", "other"} :
                 SameAsWire(
                     WireLabels_from_wire(WireLabels_new(U16_MAX), Recased(how),
                                          wire_start),
                     ScratchName_from_wire(ScratchName_new, Recased(how), wire_start))
    /\ wpc = "heap_text" =>
           /\ PlainText => StoredFromText
           /\ \A how \in {"swap", "upper", "other"} :
                 SameAsText(ScratchName_from_text(ScratchName_new, RecasedText(how)),
                            HeapName_try_from_str(RecasedText(how)))

\* a name in capitals, reached through a pointer, has been parsed and is
\* held in lower case
C21_Witness ==
    /\ wpc = "heaps"
    /\ wire_labels.trace.followed # <<>>
    /\ \E i \in LabelTextAt : wire_bytes[i] = 65
    /\ scratch1.this.name = <<1, 97, 0>>
    /\ wire_heap1.mem = <<2, 0, 2, 1, 97, 0>>

-----------------------------------------------------------------------------
(* Claims about positions the BmpVec does not hold, checked under BmpSpec   *)

\* C22: insert of a position above 63 panics and leaves the BmpVec as it
\* was; contains of a position above 63 is false, get, get_mut and remove of
\* it are None; and remove of a position that is out of range or not held
\* returns None and leaves the bitmap and the elements as they were
C22_OutOfRangeIsRefused ==
    /\ act = "oob_panic" =>
           /\ probe.insert.panic
           /\ SelfBmp = probe.before
    /\ act = "Absent" =>
           /\ probe.remove = [ret |-> None, panic |-> FALSE]
           /\ bmp = probe.before.bmp
           /\ ptr.elems = probe.before.ptr.elems
           /\ probe.pos > 63 =>
                  /\ probe.contains = FALSE
                  /\ probe.get = [ret |-> None, ub |-> FALSE]
                  /\ probe.get_mut = [ret |-> None, ub |-> FALSE]

\* insert(64) was refused by a BmpVec that holds 0 and 63
C22_Witness ==
    /\ act = "oob_panic"
    /\ probe.pos = 64
    /\ probe.insert.panic
    /\ {0, 63} \subseteq bmp

-----------------------------------------------------------------------------
(* Claims about where the elements are, checked under BmpSpec               *)

\* popcount(bitmap & ((1 << p) - 1)): the number of positions below p held
Rank(p) == Cardinality({ q \in bmp : q < p })

\* the positions held, in ascending order
Ascending == [i \in 1 .. Cardinality(bmp) |-> CHOOSE p \in bmp : Rank(p) = i - 1]

\* C23: the element of each position p that is held, which is the one the
\* oracle holds for p, is at index Rank(p) of the storage, for p up to 63;
\* keys() gives the positions held in strictly ascending order, values() the
\* elements in that order and iter() the pairs of them
C23_ElementsAreRanked ==
    /\ \A p \in 0 .. 63 :
          IF p \in bmp
          THEN /\ get_ptr(SelfBmp, p) = Some(Rank(p))
               /\ Rank(p) < Len(ptr.elems)
               /\ blimp.vec[p] = Some(ptr.elems[Rank(p) + 1])
          ELSE /\ get_ptr(SelfBmp, p) = None
               /\ blimp.vec[p] = None
    /\ BmpVec_keys(SelfBmp) = Ascending
    /\ \A i \in 2 .. Cardinality(bmp) :
          BmpVec_keys(SelfBmp)[i - 1] < BmpVec_keys(SelfBmp)[i]
    /\ BmpVec_values(SelfBmp) = [i \in 1 .. Cardinality(bmp) |-> blimp.vec[Ascending[i]][1]]
    /\ BmpVec_iter(SelfBmp) =
           [i \in 1 .. Cardinality(bmp) |->
               <<Ascending[i], blimp.vec[Ascending[i]][1]>>]

\* an element was removed from below position 63, whose element moved down
C23_Witness ==
    /\ act = "Remove"
    /\ bmp_ret # None
    /\ 63 \in bmp
    /\ Rank(63) = 1
    /\ ptr.elems[2] % 64 = 63

-----------------------------------------------------------------------------
(* Claims about the scratch pad, checked under PadSpec                      *)

\* C24: push, and append of a slice of any length, the empty one included,
\* succeed exactly when the elements fit in what is left of the pad, and
\* then add just them to as_slice(); when they do not fit the call returns
\* ScratchOverflow and the pad is as it was; clear() leaves len() 0
C24_PadOverflows ==
    /\ pad_op.op \in {"push", "append"} =>
           IF Len(pad_op.before) + Len(pad_op.elems) <= PadSize
           THEN pad_ret = Ok(0) /\ pad = pad_op.before \o pad_op.elems
           ELSE pad_ret = Err(<<"ScratchOverflow">>) /\ pad = pad_op.before
    /\ pad_op.op = "clear" => Len(pad) = 0

\* nothing was appended to a pad that is new or has been cleared, and the
\* call did not return Ok
C24_Witness ==
    /\ pad_op = [op |-> "append", elems |-> <<>>, before |-> <<>>]
    /\ pad_ret \in {[panic |-> TRUE], Err(<<"ScratchOverflow">>)}

-----------------------------------------------------------------------------
(* Claims about what a HeapName holds, checked under WireSpec               *)

\* the HeapNames that exist: those made of the WireLabels and of the
\* ScratchName, parsed or cleared, and those made of text
HeapNames ==
    (IF wpc \in {"heaps", "heaps_cleared", "texts"}
     THEN (IF wire_heap1.panic THEN {} ELSE {[mem |-> wire_heap1.mem]})
              \cup {wire_heap2}
     ELSE {})
    \cup (IF wpc = "heap_text"
          THEN {h.val : h \in {r \in {wire_heap1, wire_heap2} : r.ok}}
          ELSE {})
    \cup (IF wpc = "texts" /\ heap3 # <<>> /\ heap3.name.ok
          THEN {heap3.name.val} ELSE {})

\* it has a label, its last label is the last byte of the name, and its
\* allocation is of the size that Drop works out
HeapNameIsWhole(h) ==
    /\ HeapName_labs(h) >= 1
    /\ Len(h.mem) = HeapName_heap_len(h)
    /\ HeapName_lpos(h)[HeapName_labs(h)] = Len(HeapName_name(h)) - 1

\* C25: a HeapName made by From<&ScratchName>, From<&WireLabels>,
\* TryFrom<&[u8]> or TryFrom<&str>, of a name that was parsed or of one that
\* is new or cleared, is never empty: it has at least one label, the last
\* label position is nlen - 1, and the allocation is of 1 + labs + nlen
\* bytes, the size Drop releases
C25_HeapNameNeverEmpty ==
    wpc \in {"heaps", "heaps_cleared", "heap_text", "texts"} =>
        \A h \in HeapNames : HeapNameIsWhole(h)

\* a parse failed and cleared the ScratchName, and a HeapName was made of it
C25_Witness ==
    /\ wpc = "heaps_cleared"
    /\ scratch1.this = ScratchName_new
    /\ wire_heap2.mem = <<0>>
    /\ HeapName_heap_len(wire_heap2) = 2

\* the HeapNames made of names that were parsed are whole
ParsedHeapNamesAreWhole ==
    wpc \in {"heaps", "heap_text", "texts"} =>
        \A h \in HeapNames : HeapNameIsWhole(h)

-----------------------------------------------------------------------------
(* Claims about parsing into a name that holds one, checked under WireSpec  *)

\* C26: what from_wire and from_text leave and return depends on the bytes
\* and the start position only: on a ScratchName that holds a parsed name,
\* and was not cleared, they give the name, labs, nlen and return value
\* that they give on a new ScratchName
C26_ParseForgetsTheTarget ==
    wpc \in {"wire_again", "text_again"} =>
        /\ scratch2.this = scratch1.this
        /\ scratch2.ret = scratch1.ret

\* "A" at 0 of <<1, 65, 0>> was parsed twice into one ScratchName, which
\* holds the name twice
C26_Witness ==
    /\ wpc = "wire_again"
    /\ wire_bytes = <<1, 65, 0>> /\ wire_start = 0
    /\ scratch1.this.name = <<1, 97, 0>>
    /\ scratch2.ret = Ok(3)
    /\ scratch2.this.name = <<1, 97, 0, 1, 97, 0>>

-----------------------------------------------------------------------------
(* Claims about the twigs, checked under TwigSpec                           *)

\* C27: a CookedTwig made a RawTwig and made a CookedTwig again is the
\* same variant with the same fields: a Branch of an offset below 2^16 has
\* that offset and the bitmap of its BmpVec, whichever of the positions
\* 0..=63 it holds, so the bitmap counts the twigs of the allocation; a
\* Leaf is a Leaf, whatever the address of its HeapName
C27_TwigRoundTrip ==
    (twig_back # <<>> /\ (twig.tag = "Branch" => twig.offset <= U16_MAX)) =>
        /\ twig_back = twig
        /\ twig_back.tag = "Branch" =>
               Cardinality(twig_back.twigs.bmp) = Len(twig_back.twigs.ptr)

\* a Branch at offset 1 whose BmpVec holds positions 0, 1 and 48 came back
\* with position 1 only and its three twigs
C27_Witness ==
    /\ twig_back # <<>>
    /\ twig.tag = "Branch" /\ twig.offset = 1
    /\ twig.twigs.bmp = {0, 1, 48}
    /\ twig_back.tag = "Branch"
    /\ twig_back.twigs.bmp = {1}
    /\ Len(twig_back.twigs.ptr) = 3

\* the twigs the trie makes come back as they were: a Branch whose bitmap
\* is of the positions SHIFT_NOBYTE .. SHIFT_OFFSET - 1 and whose offset is
\* below 2^16, and a Leaf at an even address
TrieTwigsRoundTrip ==
    (/\ twig_back # <<>>
     /\ twig.tag = "Branch" =>
            twig.offset <= U16_MAX /\ twig.twigs.bmp \subseteq MASK_BMP
     /\ twig.tag = "Leaf" => twig.key % 2 = 0) =>
        twig_back = twig

-----------------------------------------------------------------------------
(* Claims about the text parser of dnsname/mod.rs, checked under WireSpec   *)

\* the text is of ordinary label bytes and dots, and is a name: it has no
\* backslash and ScratchName::from_text takes all of it
OrdinaryText ==
    /\ \A i \in 1 .. Len(wire_bytes) : wire_bytes[i] # 92
    /\ scratch1.ret = Ok(Len(wire_bytes))

\* C28: name_from_text reads each byte of its input once, from left to
\* right: every iteration of its loop advances the position or leaves the
\* loop, and a text of n ordinary label bytes and dots, as "dotat.at", gives
\* labels of just those bytes and the return value n
C28_TextIsReadOnce ==
    wpc = "name_text" =>
        /\ ~wire_labels.stuck
        /\ OrdinaryText =>
               /\ wire_labels.ret = Ok(Len(wire_bytes))
               /\ Len(wire_labels.this.lpos) = ScratchName_labs(scratch1.this)
               /\ wire_labels.this.nlen = Len(scratch1.this.name)

\* "dotat.at" was parsed: the loop stayed at the first byte until the label
\* was full
C28_Witness ==
    /\ wpc = "name_text"
    /\ wire_bytes = <<100, 111, 116, 97, 116, 46, 97, 116>>
    /\ wire_labels.stuck
    /\ wire_labels.ret = Err(<<"ScratchOverflow">>)

\* a text of decimal escapes only is read once
EscapesAreReadOnce ==
    (/\ wpc = "name_text"
     /\ Len(wire_bytes) = 4
     /\ wire_bytes[1] = 92
     /\ \A i \in 2 .. 4 : wire_bytes[i] \in 48 .. 57
     /\ scratch1.ret.ok) =>
        ~wire_labels.stuck /\ wire_labels.ret = scratch1.ret

-----------------------------------------------------------------------------
(* Claims about the size and the shape of a key, checked under TrieSpec     *)

\* C29: the key that from_dns_name writes for a valid name, of at most 255
\* bytes in labels of at most 63 of any value, has at most MAX_TRIENAME =
\* 2 * 255 + 2 = 512 bytes: no push to the key overflows it or panics
C29_KeyFits ==
    tpc \in {"keyed", "made"} =>
        /\ MAX_TRIENAME = 2 * 255 + 2
        /\ ~triename1.panic /\ Len(triename1.key) <= MAX_TRIENAME
        /\ ~triename2.panic /\ Len(triename2.key) <= MAX_TRIENAME

\* the key of a name of 255 bytes whose every byte has two codes was
\* written: two codes for each of its 250 bytes, a SHIFT_NOBYTE for each of
\* its 4 labels and one more
C29_Witness ==
    /\ tpc = "keyed"
    /\ vecs_one = LongName(3, MAX_LLEN, MAX_LLEN - 2, 0)
    /\ Len(vecs_one) = MAX_NAME
    /\ ~triename1.panic
    /\ Len(triename1.key) = 505

\* a is the beginning of b
IsPrefix(a, b) == Len(a) <= Len(b) /\ SubSeq(b, 1, Len(a)) = a

\* C30: two valid names that differ when lower-cased have keys that
\* differ, neither the beginning of the other; no key holds the byte 0
\* (SHIFT_BRANCH)
C30_KeysArePrefixFree ==
    tpc \in {"keyed", "made"} =>
        /\ Lowered(vecs_one) # Lowered(vecs_two) =>
               /\ triename1.key # triename2.key
               /\ ~IsPrefix(triename1.key, triename2.key)
               /\ ~IsPrefix(triename2.key, triename1.key)
        /\ \A i \in 1 .. Len(triename1.key) : triename1.key[i] # SHIFT_BRANCH
        /\ \A i \in 1 .. Len(triename2.key) : triename2.key[i] # SHIFT_BRANCH

\* the keys of "a." and of "a.a." were written: the shorter one ends where
\* the longer goes on
C30_Witness ==
    /\ tpc = "keyed"
    /\ vecs_one = <<1, 97, 0>>
    /\ vecs_two = <<1, 97, 1, 97, 0>>
    /\ Len(triename1.key) = 3
    /\ Len(triename2.key) = 5
    /\ SubSeq(triename2.key, 1, 2) = SubSeq(triename1.key, 1, 2)
    /\ triename1.key[3] = SHIFT_NOBYTE
    /\ triename2.key[3] # SHIFT_NOBYTE

=============================================================================
